---- MODULE Spec2Model ----
(***************************************************************************)
(* A model of WinGetPro (src/wingetpro.py): the Tk main thread with its    *)
(* event handlers, the background worker threads started by refresh() and  *)
(* _run_many(), the work queue between them, the shared pin snapshot, and  *)
(* the pure functions the workers and the handlers apply.                  *)
(*                                                                         *)
(* Text is modelled as a sequence of one-character strings, so that the    *)
(* program's string operations (strip, lower, find, slicing, comparison)   *)
(* are computed and not assumed.  "" is the empty sequence << >>.          *)
(***************************************************************************)
EXTENDS Integers, Sequences, FiniteSets, TLC

\* ------------------------------------------------------------------ text

\* The characters the model's texts are written in, in code-point order.
Chars ==
    << " ", "-", ".",
       "0", "1", "2", "3", "4", "5", "6", "7", "8", "9",
       "A", "B", "C", "D", "E", "F", "G", "H", "I", "J", "K", "L", "M",
       "N", "O", "P", "Q", "R", "S", "T", "U", "V", "W", "X", "Y", "Z",
       "a", "b", "c", "d", "e", "f", "g", "h", "i", "j", "k", "l", "m",
       "n", "o", "p", "q", "r", "s", "t", "u", "v", "w", "x", "y", "z" >>

Ord(c) == CHOOSE i \in 1..Len(Chars) : Chars[i] = c

IsDigit(c) == Ord(c) \in 4..13
DigitVal(c) == Ord(c) - 4
IsUpper(c) == Ord(c) \in 14..39
IsSpace(c) == c \in { " ", "\n" }

\* str.lower(), one character and a whole text
LowerChar(c) == IF IsUpper(c) THEN Chars[Ord(c) + 26] ELSE c
Lower(s) == [i \in 1..Len(s) |-> LowerChar(s[i])]

\* str.strip()
RECURSIVE LStrip(_)
LStrip(s) ==
    IF s # << >> /\ IsSpace(Head(s)) THEN LStrip(Tail(s)) ELSE s

RECURSIVE RStrip(_)
RStrip(s) ==
    IF s # << >> /\ IsSpace(s[Len(s)]) THEN RStrip(SubSeq(s, 1, Len(s) - 1)) ELSE s

Strip(s) == RStrip(LStrip(s))

\* Python's < on str: code points, left to right; a proper prefix is smaller
RECURSIVE StrLess(_, _)
StrLess(a, b) ==
    IF b = << >> THEN FALSE
    ELSE IF a = << >> THEN TRUE
    ELSE IF Head(a) # Head(b) THEN Ord(Head(a)) < Ord(Head(b))
    ELSE StrLess(Tail(a), Tail(b))

\* Python's `t in hay` on str
Contains(hay, t) ==
    \E i \in 0..(Len(hay) - Len(t)) : SubSeq(hay, i + 1, i + Len(t)) = t

\* Python's `x or y` on str: x unless it is empty
Or(x, y) == IF x # << >> THEN x ELSE y

\* dict.get(k, ""): every lookup of the program defaults to the empty string
Get(d, k) == IF k \in DOMAIN d THEN d[k] ELSE << >>

\* The header labels and fixed texts the program looks up.
sName == << "N", "a", "m", "e" >>
sPackage == << "P", "a", "c", "k", "a", "g", "e" >>
sId == << "I", "d" >>
sID == << "I", "D" >>
sVersion == << "V", "e", "r", "s", "i", "o", "n" >>
sAvailable == << "A", "v", "a", "i", "l", "a", "b", "l", "e" >>
sSource == << "S", "o", "u", "r", "c", "e" >>
sPinType == << "P", "i", "n", " ", "t", "y", "p", "e" >>
sPin == << "P", "i", "n" >>
sType == << "T", "y", "p", "e" >>
sYes == << "Y", "e", "s" >>
sNo == << "N", "o" >>

\* ------------------------------------------------------------ TableParser

\* A text given to parse_winget_table is modelled by output.splitlines():
\* the sequence of its lines, none of which holds a line break.

sDashes == << "-", "-", "-" >>
sNoInstalled ==
    << "n", "o", " ", "i", "n", "s", "t", "a", "l", "l", "e", "d", " ",
       "p", "a", "c", "k", "a", "g", "e" >>

\* The end of the slice of the last column (line 148)
SliceEnd == 10000

Min(S) == CHOOSE x \in S : \A y \in S : x <= y

\* str.find(needle, from): the first position (from 0) at or after `from`
\* where needle occurs, or -1
Find(hay, needle, from) ==
    LET at == { i \in from..(Len(hay) - Len(needle)) :
                    SubSeq(hay, i + 1, i + Len(needle)) = needle }
    IN  IF at = {} THEN -1 ELSE Min(at)

\* str.startswith
StartsWith(s, prefix) ==
    Len(s) >= Len(prefix) /\ SubSeq(s, 1, Len(prefix)) = prefix

\* s[start:end] for start, end >= 0
Slice(s, start, end) ==
    SubSeq(s, start + 1, IF end < Len(s) THEN end ELSE Len(s))

\* re.match(r"^-{3,}\s*$", s): three or more dashes, then only white space
RECURSIVE OnlyDashesThenSpaces(_)
OnlyDashesThenSpaces(s) ==
    IF s = << >> THEN TRUE
    ELSE IF Head(s) = "-" THEN OnlyDashesThenSpaces(Tail(s))
    ELSE \A i \in 1..Len(s) : IsSpace(s[i])

MatchDashLine(s) == StartsWith(s, sDashes) /\ OnlyDashesThenSpaces(s)

\* re.match(r"^-{3,}", s)
MatchDashPrefix(s) == StartsWith(s, sDashes)

\* re.split(r"\s{2,}", s): cut at every run of two or more white spaces
RECURSIVE Split2From(_, _)
Split2From(s, cur) ==
    IF s = << >> THEN << cur >>
    ELSE IF Len(s) >= 2 /\ IsSpace(s[1]) /\ IsSpace(s[2])
         THEN << cur >> \o Split2From(LStrip(s), << >>)
         ELSE Split2From(Tail(s), Append(cur, Head(s)))

Split2(s) == Split2From(s, << >>)

\* line 96: the lines that are not blank
NonBlank(lines0) == SelectSeq(lines0, LAMBDA ln : Strip(ln) # << >>)

\* line 103: the test of a header line
IsHeaderLine(ln) ==
    /\ Contains(ln, sId)
    /\ Contains(ln, sName) \/ Contains(ln, sPackage)
    /\ ~Contains(ln, sDashes)

\* lines 101-105: the index (from 0) of the first header line, or -1
HeaderIdx(lines) ==
    LET at == { i \in 0..(Len(lines) - 1) : IsHeaderLine(lines[i + 1]) }
    IN  IF at = {} THEN -1 ELSE Min(at)

\* Reading lines[k] faults (IndexError) when k is not an index of the list
NoFault == "none"
IndexError == "IndexError"

RECURSIVE DelimScan_unbounded(_, _)
DelimScan_unbounded(lines, k) ==
    IF k \notin 0..(Len(lines) - 1) THEN [raised |-> IndexError, idx |-> k]
    ELSE IF MatchDashLine(Strip(lines[k + 1])) THEN [raised |-> NoFault, idx |-> k]
    ELSE IF MatchDashPrefix(Strip(lines[k + 1])) THEN [raised |-> NoFault, idx |-> k]
    ELSE DelimScan_unbounded(lines, k + 1)

\* lines 111-115: the loop that looks for the delimiter row from index k on:
\* the index it stops at, and whether it read past the list
RECURSIVE DelimScan(_, _)
DelimScan(lines, k) ==
    IF ~(k < Len(lines)) THEN [raised |-> NoFault, idx |-> k]
    ELSE IF k \notin 0..(Len(lines) - 1) THEN [raised |-> IndexError, idx |-> k]
    ELSE IF MatchDashLine(Strip(lines[k + 1])) THEN [raised |-> NoFault, idx |-> k]
    ELSE IF MatchDashPrefix(Strip(lines[k + 1])) THEN [raised |-> NoFault, idx |-> k]
    ELSE DelimScan(lines, k + 1)

\* line 122: the column labels
ColNames(header_line) ==
    LET parts == Split2(Strip(header_line))
    IN  SelectSeq([i \in 1..Len(parts) |-> Strip(parts[i])], LAMBDA c : c # << >>)

RECURSIVE StartsFrom_first(_, _, _)
StartsFrom_first(header_line, names, search_from) ==
    IF names = << >> THEN << >>
    ELSE LET name == Head(names)
             p2 == Find(header_line, name, 0)
             pos == IF p2 # -1 THEN p2 ELSE search_from
         IN  << pos >> \o StartsFrom_first(header_line, Tail(names), pos + Len(name))

\* lines 127-137: where each column starts
RECURSIVE StartsFrom(_, _, _)
StartsFrom(header_line, names, search_from) ==
    IF names = << >> THEN << >>
    ELSE LET name == Head(names)
             p1 == Find(header_line, name, search_from)
             p2 == Find(header_line, name, 0)
             pos == IF p1 # -1 THEN p1 ELSE IF p2 # -1 THEN p2 ELSE search_from
         IN  << pos >> \o StartsFrom(header_line, Tail(names), pos + Len(name))

Slices_width(header_line) ==
    LET names == ColNames(header_line)
        starts == StartsFrom(header_line, names, 0)
    IN  [i \in 1..Len(names) |->
            [ name |-> names[i], start |-> starts[i],
              end |-> starts[i] + Len(names[i]) ]]

\* lines 140-144: (name, start, end) of each column
Slices(header_line) ==
    LET names == ColNames(header_line)
        starts == StartsFrom(header_line, names, 0)
    IN  [i \in 1..Len(names) |->
            [ name |-> names[i], start |-> starts[i],
              end |-> IF i + 1 <= Len(starts) THEN starts[i + 1] ELSE SliceEnd ]]

RowOf_nonempty(ln, slices) ==
    LET cell(i) == Strip(Slice(ln, slices[i].start, slices[i].end))
    IN  [ name \in { slices[i].name : i \in { j \in 1..Len(slices) : cell(j) # << >> } } |->
            LET last == CHOOSE i \in 1..Len(slices) :
                            /\ slices[i].name = name
                            /\ cell(i) # << >>
                            /\ \A j \in (i + 1)..Len(slices) :
                                   slices[j].name = name => cell(j) = << >>
            IN  cell(last) ]

\* lines 153-155: the row of one data line; a label that occurs twice keeps
\* the cell of its last column
RowOf(ln, slices) ==
    [ name \in { slices[i].name : i \in 1..Len(slices) } |->
        LET last == CHOOSE i \in 1..Len(slices) :
                        /\ slices[i].name = name
                        /\ \A j \in (i + 1)..Len(slices) : slices[j].name # name
        IN  Strip(Slice(ln, slices[last].start, slices[last].end)) ]

\* lines 147-158: the loop over the lines after the delimiter row
RECURSIVE RowsFrom(_, _)
RowsFrom(lines, slices) ==
    IF lines = << >> THEN << >>
    ELSE LET ln == Head(lines)
             row == RowOf(ln, slices)
         IN  IF StartsWith(Lower(Strip(ln)), sNoInstalled) THEN << >>
             ELSE IF StartsWith(Strip(ln), sDashes) THEN RowsFrom(Tail(lines), slices)
             ELSE IF \E name \in DOMAIN row : row[name] # << >>
                  THEN << row >> \o RowsFrom(Tail(lines), slices)
                  ELSE RowsFrom(Tail(lines), slices)

\* parse_winget_table: what it raises (NoFault: nothing) and what it returns
ParseWingetTable(lines0) ==
    LET lines == NonBlank(lines0)
        header_idx == HeaderIdx(lines)
        scan == DelimScan(lines, header_idx + 1)
        delim_idx == scan.idx
        Returns(rows) == [raised |-> NoFault, rows |-> rows]
    IN  IF lines = << >> THEN Returns(<< >>)
        ELSE IF header_idx = -1 THEN Returns(<< >>)
        ELSE IF scan.raised # NoFault THEN [raised |-> scan.raised, rows |-> << >>]
        ELSE IF delim_idx >= Len(lines) THEN Returns(<< >>)
        ELSE IF ColNames(lines[header_idx + 1]) = << >> THEN Returns(<< >>)
        ELSE Returns(RowsFrom(SubSeq(lines, delim_idx + 2, Len(lines)),
                              Slices(lines[header_idx + 1])))

\* ------------------------------------------------------------ PinRegistry

\* The entry get_pins stores for one raw row of `winget pin list`.
PinEntry(r) ==
    (sSource :> Get(r, sSource))
    @@ (sVersion :> Get(r, sVersion))
    @@ (sPinType :> Or(Or(Get(r, sPinType), Get(r, sPin)), Get(r, sType)))

\* The identifier of a raw row: r.get("Id", "") or r.get("ID", "")
RowId(r) == Or(Get(r, sId), Get(r, sID))

\* The loop of get_pins: rows without an identifier are skipped, a later row
\* of the same identifier overwrites the earlier one.
RECURSIVE PinsOf(_, _)
PinsOf(table, acc) ==
    IF table = << >> THEN acc
    ELSE LET r == Head(table)
             pid == RowId(r)
         IN  PinsOf(Tail(table),
                    IF pid = << >> THEN acc
                    ELSE [x \in (DOMAIN acc) \cup {pid} |->
                             IF x = pid THEN PinEntry(r) ELSE acc[x]])

\* get_pins, given what run_winget(["pin", "list"]) returned (its exit code
\* and its output as parsed by parse_winget_table).
GetPins(rc, table) == IF rc # 0 THEN << >> ELSE PinsOf(table, << >>)

\* ----------------------------------------------------------- RowNormalizer

\* _to_rows, first read of self.pins for a row: pin = self.pins.get(pid, {})
PinLookup(pins, r) ==
    IF RowId(r) \in DOMAIN pins THEN pins[RowId(r)] ELSE << >>

PinnedYes_IdOnly(pins, r) == IF Get(r, sId) \in DOMAIN pins THEN sYes ELSE sNo

\* _to_rows, second read of self.pins: "Yes" if pid in self.pins else "No"
PinnedYes(pins, r) == IF RowId(r) \in DOMAIN pins THEN sYes ELSE sNo

\* The PackageRow _to_rows appends for raw row r
MakeRow(r, pin, pinned_yes) ==
    [ name        |-> Or(Get(r, sName), Get(r, sPackage)),
      id          |-> RowId(r),
      version     |-> Get(r, sVersion),
      available   |-> Get(r, sAvailable),
      source      |-> Get(r, sSource),
      pinned      |-> pinned_yes,
      pin_type    |-> Get(pin, sPinType),
      pin_version |-> Get(pin, sVersion) ]

\* _to_rows with self.pins not written meanwhile
ToRows(table_rows, pins) ==
    [i \in 1..Len(table_rows) |->
        MakeRow(table_rows[i], PinLookup(pins, table_rows[i]),
                PinnedYes(pins, table_rows[i]))]

\* ---------------------------------------------------------------- filter

RECURSIVE JoinSp(_)
JoinSp(parts) ==
    IF parts = << >> THEN << >>
    ELSE IF Len(parts) = 1 THEN parts[1]
    ELSE parts[1] \o << " " >> \o JoinSp(Tail(parts))

Hay(r) ==
    Lower(JoinSp(<< r.name, r.id, r.version, r.available, r.source,
                    r.pinned, r.pin_type, r.pin_version >>))

\* _filter_rows
FilterRows(rows, text) ==
    LET t == Lower(Strip(text))
    IN  IF t = << >> THEN rows
        ELSE SelectSeq(rows, LAMBDA r : Contains(Hay(r), t))

\* ------------------------------------------------------------ SortEngine

\* re.findall(r"\d+", s) as integers: each maximal run of digits
RECURSIVE DigitRunsFrom(_, _, _)
DigitRunsFrom(s, cur, inrun) ==
    IF s = << >> THEN (IF inrun THEN << cur >> ELSE << >>)
    ELSE IF IsDigit(Head(s))
         THEN DigitRunsFrom(Tail(s), (IF inrun THEN cur * 10 ELSE 0) + DigitVal(Head(s)), TRUE)
         ELSE (IF inrun THEN << cur >> ELSE << >>) \o DigitRunsFrom(Tail(s), 0, FALSE)

DigitRuns(s) == DigitRunsFrom(s, 0, FALSE)

VersionKey_text(s0) ==
    IF s0 = << >> THEN << 0, << >> >>
    ELSE << 0, << >>, Lower(Strip(s0)) >>

\* _version_key
VersionKey(s0) ==
    IF s0 = << >> THEN << 0, << >> >>
    ELSE LET s == Strip(s0)
             nums == DigitRuns(s)
         IN  IF nums # << >> THEN << 1, nums, Lower(s) >>
             ELSE << 0, << >>, Lower(s) >>

VersionCols == { "Version", "Available", "PinVersion" }

\* _cell_key
CellKey(col, value) ==
    LET v == Strip(value)
    IN  IF col \in VersionCols THEN VersionKey(v)
        ELSE IF col = "Pinned" THEN (IF Lower(v) = Lower(sYes) THEN 0 ELSE 1)
        ELSE Lower(v)

\* Python's < on tuples of int
RECURSIVE IntsLess(_, _)
IntsLess(a, b) ==
    IF b = << >> THEN FALSE
    ELSE IF a = << >> THEN TRUE
    ELSE IF Head(a) # Head(b) THEN Head(a) < Head(b)
    ELSE IntsLess(Tail(a), Tail(b))

\* Python's < on the tuples _version_key returns
VersionKeyLess(k1, k2) ==
    IF k1[1] # k2[1] THEN k1[1] < k2[1]
    ELSE IF k1[2] # k2[2] THEN IntsLess(k1[2], k2[2])
    ELSE IF Len(k1) = 2 \/ Len(k2) = 2 THEN Len(k1) < Len(k2)
    ELSE StrLess(k1[3], k2[3])

\* Python's < on two keys of the same column
KeyLess(col, k1, k2) ==
    IF col \in VersionCols THEN VersionKeyLess(k1, k2)
    ELSE IF col = "Pinned" THEN k1 < k2
    ELSE StrLess(k1, k2)

\* The cell _sort_tree reads: col_index, with 0 for an unknown column
Cell(row, col) ==
    CASE col = "Id" -> row.id
      [] col = "Version" -> row.version
      [] col = "Available" -> row.available
      [] col = "Source" -> row.source
      [] col = "Pinned" -> row.pinned
      [] col = "PinType" -> row.pin_type
      [] col = "PinVersion" -> row.pin_version
      [] OTHER -> row.name

RECURSIVE InsertByKey_ties_first(_, _, _, _)
InsertByKey_ties_first(sorted, x, col, reverse) ==
    IF sorted = << >> THEN << x >>
    ELSE LET kx == CellKey(col, Cell(x, col))
             ky == CellKey(col, Cell(Head(sorted), col))
             after == IF reverse THEN ~KeyLess(col, kx, ky) ELSE ~KeyLess(col, ky, kx)
         IN  IF after THEN << x >> \o sorted
             ELSE << Head(sorted) >> \o InsertByKey_ties_first(Tail(sorted), x, col, reverse)

\* list.sort(key=..., reverse=...) is stable in both directions: x goes
\* before the first element that must come strictly after it.
RECURSIVE InsertByKey(_, _, _, _)
InsertByKey(sorted, x, col, reverse) ==
    IF sorted = << >> THEN << x >>
    ELSE LET kx == CellKey(col, Cell(x, col))
             ky == CellKey(col, Cell(Head(sorted), col))
             after == IF reverse THEN KeyLess(col, ky, kx) ELSE KeyLess(col, kx, ky)
         IN  IF after THEN << x >> \o sorted
             ELSE << Head(sorted) >> \o InsertByKey(Tail(sorted), x, col, reverse)

RECURSIVE SortFrom(_, _, _, _)
SortFrom(rest, acc, col, reverse) ==
    IF rest = << >> THEN acc
    ELSE SortFrom(Tail(rest), InsertByKey(acc, Head(rest), col, reverse), col, reverse)

\* _sort_tree: the displayed rows, reordered
SortTree(rows, col, reverse) == SortFrom(rows, << >>, col, reverse)

\* ------------------------------------------------------- CommandDispatcher

\* An argument of a command line: a literal of the program, or a text value
\* taken from the table (a package id) or from the search box.
Lit(s) == [lit |-> s]
Txt(t) == [txt |-> t]

BuildCommonFlags_silent_only(o, exact) ==
    (IF exact THEN << Lit("--exact") >> ELSE << >>)
    \o (IF o.silent THEN << Lit("--silent") >> ELSE << >>)
    \o (IF o.accept
        THEN << Lit("--accept-package-agreements"), Lit("--accept-source-agreements") >>
        ELSE << >>)

\* _build_common_flags; o holds the values of the option check buttons
BuildCommonFlags(o, exact) ==
    (IF exact THEN << Lit("--exact") >> ELSE << >>)
    \o (IF o.silent THEN << Lit("--silent") >> ELSE << Lit("--interactive") >>)
    \o (IF o.accept
        THEN << Lit("--accept-package-agreements"), Lit("--accept-source-agreements") >>
        ELSE << >>)

InstallCmd(pid, o) ==
    << Lit("install"), Lit("--id"), Txt(pid) >> \o BuildCommonFlags(o, TRUE)

UpgradeCmd(pid, o) ==
    << Lit("upgrade"), Lit("--id"), Txt(pid) >> \o BuildCommonFlags(o, TRUE)

UpgradeAllCmd_exact(o) ==
    << Lit("upgrade"), Lit("--all") >>
    \o (IF o.include_unknown THEN << Lit("--include-unknown") >> ELSE << >>)
    \o (IF o.include_pinned THEN << Lit("--include-pinned") >> ELSE << >>)
    \o BuildCommonFlags(o, TRUE)

UpgradeAllCmd(o) ==
    << Lit("upgrade"), Lit("--all") >>
    \o (IF o.include_unknown THEN << Lit("--include-unknown") >> ELSE << >>)
    \o (IF o.include_pinned THEN << Lit("--include-pinned") >> ELSE << >>)
    \o BuildCommonFlags(o, FALSE)

\* uninstall_selected.build
UninstallCmd(pid, o) ==
    << Lit("uninstall"), Lit("--id"), Txt(pid), Lit("--exact") >>
    \o (IF o.uninstall_source_winget THEN << Lit("--source"), Lit("winget") >> ELSE << >>)
    \o (IF o.silent THEN << Lit("--silent") >> ELSE << Lit("--interactive") >>)
    \o (IF o.accept THEN << Lit("--accept-source-agreements") >> ELSE << >>)
    \o << Lit("--force") >>

PinCmd(pid, o) ==
    << Lit("pin"), Lit("add"), Lit("--id"), Txt(pid), Lit("--exact") >>
    \o (IF o.accept THEN << Lit("--accept-source-agreements") >> ELSE << >>)

UnpinCmd(pid, o) ==
    << Lit("pin"), Lit("remove"), Lit("--id"), Txt(pid), Lit("--exact") >>
    \o (IF o.accept THEN << Lit("--accept-source-agreements") >> ELSE << >>)

\* The listing command of refresh.worker for a mode
ListingCmd(mode, query, o) ==
    IF mode = "Search" THEN << Lit("search"), Txt(query) >>
    ELSE IF mode = "Installed" THEN << Lit("list") >>
    ELSE << Lit("upgrade") >>
         \o (IF o.include_unknown THEN << Lit("--include-unknown") >> ELSE << >>)
         \o (IF o.include_pinned THEN << Lit("--include-pinned") >> ELSE << >>)

PinListCmd == << Lit("pin"), Lit("list") >>
VersionCmd == << Lit("--version") >>

\* ----------------------------------------------------------- CommandRunner

\* The codes run_winget makes up
RcNotFound == 127
RcTimeout == 124
RcError == 1

\* A text is a sequence of pieces: single characters, and the literals of the
\* program as one piece each.
msgNotFound ==
    << "winget not found in PATH. Install 'App Installer' from Microsoft Store." >>
msgTimeout == << "Timeout running: " >>
msgError == << "Error running: " >>

\* str(arg) of an argument of a command line
ArgText(a) == IF "lit" \in DOMAIN a THEN << a.lit >> ELSE a.txt

\* ' '.join(cmd)
JoinCmd(cmd) == JoinSp([i \in 1..Len(cmd) |-> ArgText(cmd[i])])

\* What leaves run_winget otherwise than by a return
OSError == "OSError"

RunWinget_uncaught(exe, args, timeout, proc) ==
    IF exe = << >>
    THEN [raised |-> NoFault, spawned |-> FALSE, rc |-> RcNotFound, out |-> msgNotFound]
    ELSE LET cmd == << Txt(exe) >> \o args
         IN  CASE proc.kind = "completed" ->
                    [ raised |-> NoFault, spawned |-> TRUE, rc |-> proc.returncode,
                      out |-> Strip(Or(proc.stdout, << >>)
                                    \o (IF proc.stderr # << >>
                                        THEN << "\n" >> \o proc.stderr ELSE << >>)) ]
               [] proc.kind = "TimeoutExpired" ->
                    [ raised |-> NoFault, spawned |-> TRUE, rc |-> RcTimeout,
                      out |-> msgTimeout \o JoinCmd(cmd) ]
               [] OTHER ->
                    [ raised |-> OSError, spawned |-> TRUE, rc |-> RcError, out |-> << >> ]

\* run_winget.  exe is what shutil.which found (empty for None); proc is what
\* subprocess.run does with the command: it completes with an exit code and
\* the two captured streams, the timeout expires, or the launch raises e.
RunWinget(exe, args, timeout, proc) ==
    IF exe = << >>
    THEN [raised |-> NoFault, spawned |-> FALSE, rc |-> RcNotFound, out |-> msgNotFound]
    ELSE LET cmd == << Txt(exe) >> \o args
         IN  CASE proc.kind = "completed" ->
                    [ raised |-> NoFault, spawned |-> TRUE, rc |-> proc.returncode,
                      out |-> Strip(Or(proc.stdout, << >>)
                                    \o (IF proc.stderr # << >>
                                        THEN << "\n" >> \o proc.stderr ELSE << >>)) ]
               [] proc.kind = "TimeoutExpired" ->
                    [ raised |-> NoFault, spawned |-> TRUE, rc |-> RcTimeout,
                      out |-> msgTimeout \o JoinCmd(cmd) ]
               [] OTHER ->
                    [ raised |-> NoFault, spawned |-> TRUE, rc |-> RcError,
                      out |-> msgError \o JoinCmd(cmd) \o << "\n" >> \o proc.e ]

\* _selected_ids: the ids of the selected rows in table order, empty ids
\* dropped, each id once (first occurrence kept).  sel is the set of selected
\* row positions.
RECURSIVE Unique_all(_, _)
Unique_all(ids, seen) ==
    IF ids = << >> THEN << >>
    ELSE << Head(ids) >> \o Unique_all(Tail(ids), seen \cup {Head(ids)})

RECURSIVE Unique(_, _)
Unique(ids, seen) ==
    IF ids = << >> THEN << >>
    ELSE IF Head(ids) \in seen THEN Unique(Tail(ids), seen)
    ELSE << Head(ids) >> \o Unique(Tail(ids), seen \cup {Head(ids)})

RECURSIVE IdsAt(_, _, _)
IdsAt(rows, sel, i) ==
    IF i > Len(rows) THEN << >>
    ELSE (IF i \in sel /\ rows[i].id # << >> THEN << rows[i].id >> ELSE << >>)
         \o IdsAt(rows, sel, i + 1)

SelectedIds(rows, sel) == Unique(IdsAt(rows, sel, 1), {})

\* ----------------------------------------------------------------- bounds

\* Runs (refreshes and action runs) that are not over at the same time: a
\* run is over once its thread has ended and all its events were handled.
MaxActive == 2

\* Events waiting in the work queue (queue.Queue() itself has no limit).
MaxQueue == 2

\* Packages in the listing of the specification of one action run
MaxRows == 3

\* Raw rows in a table handed to a pure function
MaxTable == 2

\* Lines of a text handed to parse_winget_table
MaxLines == 3

Runs == 1..MaxActive

\* ------------------------------------------------------ the outside world

tFoo == << "F", "o", "o" >>
tFooBar == << "F", "o", "o", ".", "B", "a", "r" >>
tBaz == << "B", "a", "z" >>
tBazQux == << "B", "a", "z", ".", "Q", "u", "x" >>
t10 == << "1", ".", "0" >>
t20 == << "2", ".", "0" >>
tPinning == << "P", "i", "n", "n", "i", "n", "g" >>

rawFoo == (sName :> tFoo) @@ (sId :> tFooBar) @@ (sVersion :> t10)
rawBaz == (sName :> tBaz) @@ (sId :> tBazQux) @@ (sVersion :> t20)
pinFoo == (sName :> tFoo) @@ (sId :> tFooBar) @@ (sVersion :> t10) @@ (sPinType :> tPinning)

\* What run_winget returns for a mutating command: the exit code of the
\* child process, 127 when winget is not on the PATH, 1 when Popen raises;
\* `out` stands for the text returned with it.  (124, the code of a timeout,
\* needs a timeout, and no caller passes one.)
ActionResults ==
    { [rc |-> 0, out |-> "ok"],
      [rc |-> 1, out |-> "failed"],
      [rc |-> 127, out |-> "winget not found"] }

\* What run_winget(["pin", "list"]) returns, with the rows
\* parse_winget_table finds in the text.
PinListResults ==
    { [rc |-> 0, out |-> "pin table", table |-> << pinFoo >>],
      [rc |-> 0, out |-> "no pins", table |-> << >>],
      [rc |-> 1, out |-> "failed", table |-> << >>] }

\* A winget that lists MaxRows + 1 packages a, b, c, ..., of which every
\* other one has the identifier B.b, every fourth has none, the others A.a
DupPkg(k) ==
    (sName :> << Chars[39 + k] >>)
    @@ (sVersion :> << Chars[4 + k] >>)
    @@ (IF k % 4 = 0 THEN << >>
        ELSE (sId :> (IF k % 2 = 1 THEN << "B", ".", "b" >> ELSE << "A", ".", "a" >>)))
ListDup ==
    { [rc |-> 0, out |-> "table", table |-> [k \in 1..(MaxRows + 1) |-> DupPkg(k)]] }

\* A winget whose pin listing works or fails: exit code 1 with a pin table on
\* the output all the same, or not found on the PATH.  (No caller passes a
\* timeout, so 124 is not to be had.)
PinsOrFailure ==
    { [rc |-> 0, out |-> "pin table", table |-> << pinFoo >>],
      [rc |-> 1, out |-> "pin table", table |-> << pinFoo >>],
      [rc |-> 127, out |-> "winget not found", table |-> << >>] }

\* What run_winget returns for a listing command (search, list, upgrade),
\* with the rows parse_winget_table finds in the text.
ListResults ==
    { [rc |-> 0, out |-> "table", table |-> << rawFoo, rawBaz >>],
      [rc |-> 1, out |-> "failed", table |-> << >>] }

\* A winget whose answers do not vary: the pin of Foo stays, one package is
\* listed (or the listing fails), the mutating commands succeed.
PinsKept == { res \in PinListResults : res.table # << >> }
ListOne ==
    { [rc |-> 0, out |-> "table", table |-> << rawFoo >>],
      [rc |-> 1, out |-> "failed", table |-> << >>] }
ActionOk == { res \in ActionResults : res.rc = 0 }

\* A winget that lists MaxRows packages: A (A.a, version 1), B (B.b, 2), ...
Pkg(k) ==
    (sName :> << Chars[13 + k] >>)
    @@ (sId :> << Chars[13 + k], ".", Chars[39 + k] >>)
    @@ (sVersion :> << Chars[4 + k] >>)
ListMany == { [rc |-> 0, out |-> "table", table |-> [k \in 1..MaxRows |-> Pkg(k)]] }

\* A winget that lists MaxRows packages whose names differ by case only or
\* not at all in the sort key: b, A, B, a, ...
SortPkg(k) ==
    (sName :> << Chars[(IF (k \div 2) % 2 = 1 THEN 14 ELSE 40) + (k % 2)] >>)
    @@ (sId :> << "X", ".", Chars[39 + k] >>)
    @@ (sVersion :> << "1", ".", Chars[14 - k] >>)
ListSort == { [rc |-> 0, out |-> "table", table |-> [k \in 1..MaxRows |-> SortPkg(k)]] }

\* What shutil.which("winget") finds: nothing, or a path
WhichResults == { << >>, << "/", "w" >> }

\* The timeout argument: None, or a number of seconds
Timeouts == { [given |-> FALSE], [given |-> TRUE, secs |-> 30] }

\* Exit codes of a child process
ExitCodes == { 0, 1, 2, 124, 127, 255 }

\* The captured streams of a child process
Streams == { << >>, << "o", "k" >>, << " ", "o", "k", "\n" >> }

\* What subprocess.run may do
Procs ==
    { [kind |-> "completed", returncode |-> c, stdout |-> o, stderr |-> e] :
          c \in ExitCodes, o \in Streams, e \in Streams }
    \cup { [kind |-> "TimeoutExpired"] }
    \cup { [kind |-> "OSError", e |-> << "Access is denied" >>] }

\* Cells of a version column: dotted versions, numbers of one and two digits,
\* a leading zero, texts without a digit in both cases, text around a
\* number, the empty and the blank cell
VersionSamples ==
    { << >>,
      << " " >>,
      << "1", ".", "9" >>,
      << "1", ".", "1", "0" >>,
      << "a", "b", "c" >>,
      << "1", ".", "0" >>,
      << "2" >>,
      << "1", "0" >>,
      << "1", ".", "0", "a" >>,
      << "v", "1" >>,
      << "A", "B", "C" >>,
      << "0", "1" >> }

\* The headers the user clicks
SortCols == { "Name", "Id", "Version", "Pinned" }

\* Raw rows as parse_winget_table may hand them to _to_rows: with the
\* identifier under "Id" or under "ID", without one, named by "Package"
RawSamples ==
    { rawFoo,
      rawBaz,
      (sName :> tFoo) @@ (sID :> tFooBar) @@ (sVersion :> t20),
      (sPackage :> tBaz) @@ (sVersion :> t10),
      (sPackage :> tBaz) @@ (sId :> tBazQux) @@ (sAvailable :> t20) }

pinBaz == (sId :> tBazQux) @@ (sType :> tPinning)

\* Values of self.pins
PinMaps == { GetPins(1, << >>), GetPins(0, << pinFoo >>), GetPins(0, << pinFoo, pinBaz >>) }

SeqsUpTo(S, n) == UNION { [1..k -> S] : k \in 0..n }

\* Lines of winget output: headers, delimiter rows, data lines cut to and
\* not cut to the columns, a blank line, the summary line
lnHeader == << "N","a","m","e"," "," ","I","d"," "," ","V","e","r","s","i","o","n" >>
lnRule == << "-","-","-","-"," "," ","-","-"," "," ","-","-","-","-","-","-","-" >>
lnFooBar == << "F","o","o"," "," "," ","F","o","o",".","B","a","r"," "," ","1",".","0" >>
lnFit == << "B","a","z"," "," "," ","Q","x"," "," ","2",".","0" >>
lnTwice == << "P","a","c","k","a","g","e"," "," ","I","d"," "," ","I","d" >>
lnIdName == << "I","d"," "," "," ","N","a","m","e" >>
lnDashes == << "-","-","-","-","-" >>
lnShort == << " ","Q","x" >>
lnBlank == << " "," " >>
lnSummary ==
    << "N","o"," ","i","n","s","t","a","l","l","e","d"," ","p","a","c","k","a","g","e",
       " ","f","o","u","n","d" >>
ParseLines ==
    { lnHeader, lnRule, lnFooBar, lnFit, lnTwice, lnIdName, lnDashes, lnShort, lnBlank,
      lnSummary }

\* Header lines of up to MaxCols labels, two or three spaces apart, after no
\* or one space: labels that repeat, that are part of one another, that hold
\* a space
MaxCols == 3
lbIdName == sId \o sName
lbIdNa == sId \o << " ", "N", "a" >>
HeaderLabels == { sName, sId, lbIdName, lbIdNa }
Spaces(n) == [i \in 1..n |-> " "]

RECURSIVE HeaderFrom(_, _, _)
HeaderFrom(labels, gaps, k) ==
    IF k > Len(labels) THEN << >>
    ELSE Spaces(IF k = 1 THEN gaps[k] - 2 ELSE gaps[k]) \o labels[k]
         \o HeaderFrom(labels, gaps, k + 1)

HeaderSamples ==
    { h \in UNION { { HeaderFrom(ls, g, 1) : ls \in [1..k -> HeaderLabels],
                                             g \in [1..k -> { 2, 3 }] } :
                    k \in 1..MaxCols } :
        IsHeaderLine(h) }

\* What the user may type into the search box
Queries == { << >>, tFoo }

Modes == { "Upgrades", "Search", "Installed" }

\* ------------------------------------------------------------------ state

\* The log widget and the status bar only display what the events carry;
\* they are not part of the state.
VARIABLES
    mpc,                  \* main thread: "init" inside __init__, then "mainloop"
    busy,                 \* the toolbar widgets are disabled (_set_busy)
    current_mode,         \* self.current_mode
    search_text,          \* self.search_text
    opts,                 \* the option check buttons
    pins,                 \* self.pins, written by the refresh workers
    all_rows,             \* self._all_rows
    tree,                 \* the rows the Treeview displays, top to bottom
    sort_col,             \* self._sort_col
    sort_reverse,         \* self._sort_reverse
    sort_reverse_by_col,  \* self._sort_reverse_by_col
    last_click,           \* history: the header clicks (see Clicked)
    work_q,               \* self.work_q
    after_refresh,        \* the pending after(0, self.refresh) callbacks
    workers,              \* the worker threads, by run
    emitted,              \* history: the events each run has put, in order
    processed,            \* history: the events of each run _poll_queue handled
    invoked,              \* history: the commands each worker gave run_winget
    main_calls,           \* history: the commands the main thread gave run_winget
    fn_in,                \* the arguments of a pure function under test
    fn_out                \* its result

vars ==
    << mpc, busy, current_mode, search_text, opts, pins, all_rows, tree,
       sort_col, sort_reverse, sort_reverse_by_col, last_click, work_q,
       after_refresh, workers, emitted, processed, invoked, main_calls, fn_in, fn_out >>

sortVars == << sort_col, sort_reverse, sort_reverse_by_col, last_click >>
fnVars == << fn_in, fn_out >>
histVars == << emitted, processed, invoked >>

NoWorker ==
    [ kind |-> "none", pc |-> "none", mode |-> "", query |-> << >>, title |-> "",
      cmds |-> << >>, refresh_after |-> FALSE, i |-> 0,
      raw |-> << >>, built |-> << >>, pin |-> << >>, snap |-> << >>, pin_rc |-> 0 ]

NoCall == [op |-> "none"]

\* The history of the header clicks: the direction of the last click on each
\* column and, of the last click of all, the column, the sort column and
\* direction it found, and the displayed rows before and after it
NoClick ==
    [ dir |-> << >>, col |-> "", from |-> "", from_reverse |-> FALSE,
      before |-> << >>, after |-> << >> ]

Clicked(col, reverse, rows) ==
    [ dir |-> (col :> reverse) @@ last_click.dir, col |-> col, from |-> sort_col,
      from_reverse |-> sort_reverse, before |-> tree, after |-> rows ]

\* The fields __init__ sets before it builds the window (lines 198-218)
AppFields ==
    /\ mpc = "init"
    /\ busy = FALSE
    /\ current_mode = "Upgrades"
    /\ search_text = << >>
    /\ opts = [ silent |-> FALSE, accept |-> TRUE, include_pinned |-> FALSE,
                include_unknown |-> FALSE, uninstall_source_winget |-> TRUE ]
    /\ pins = << >>
    /\ all_rows = << >>
    /\ tree = << >>
    /\ sort_col = "Name"
    /\ sort_reverse = FALSE
    /\ sort_reverse_by_col = << >>
    /\ last_click = NoClick
    /\ work_q = << >>
    /\ after_refresh = << >>
    /\ workers = [r \in Runs |-> NoWorker]
    /\ emitted = [r \in Runs |-> << >>]
    /\ processed = [r \in Runs |-> << >>]
    /\ invoked = [r \in Runs |-> << >>]
    /\ main_calls = << >>

Init ==
    /\ AppFields
    /\ fn_in = NoCall
    /\ fn_out = NoCall

\* ------------------------------------------------------------- work queue

put_front(q, e) == << e >> \o q

\* queue.Queue.put
put(q, e) == Append(q, e)

\* queue.Queue.get_nowait on a queue that is not empty: the item, the rest
get_nowait(q) == << Head(q), Tail(q) >>

Alive(r) == workers[r].pc \notin { "none", "end" }

\* Worker r is inside run_winget, waiting for the child process
Executing(r) == workers[r].pc \in { "r_pins", "r_list", "a_run" }

\* No run occupies r
Free(r) == workers[r].kind = "none"

CanStart == \E r \in Runs : Free(r)

\* Worker r puts an event; `emitted` records it.
Emit(r, kind, payload) ==
    LET e == [kind |-> kind, payload |-> payload, run |-> r]
    IN  /\ Len(work_q) < MaxQueue
        /\ work_q' = put(work_q, e)
        /\ emitted' = [emitted EXCEPT ![r] = Append(@, e)]

\* ------------------------------------------------------- main thread: data

FillTable_unsorted(rows) ==
    IF rows # << >> THEN rows ELSE << >>

\* _fill_table, with _apply_last_sort: the rows the table then displays
FillTable(rows) ==
    IF rows # << >> THEN SortTree(rows, sort_col, sort_reverse) ELSE << >>

\* One iteration of the loop of _poll_queue, on the event it took
Handle(st, e) ==
    LET st1 == [st EXCEPT !.processed = [@ EXCEPT ![e.run] = Append(@, e)]]
    IN  CASE e.kind = "all_rows" -> [st1 EXCEPT !.all_rows = e.payload.rows]
          [] e.kind = "table" -> [st1 EXCEPT !.tree = FillTable(e.payload.rows)]
          [] e.kind = "done" -> [st1 EXCEPT !.busy = FALSE]
          [] OTHER -> st1

\* The loop of _poll_queue: until the queue is empty
RECURSIVE Drain(_, _)
Drain(q, st) ==
    IF q = << >> THEN st
    ELSE Drain(get_nowait(q)[2], Handle(st, get_nowait(q)[1]))

\* --------------------------------------------------- main thread: handlers

\* threading.Thread(target=worker, daemon=True).start(): the new run takes
\* the first place no run occupies.
StartThread(w) ==
    LET new == CHOOSE r \in Runs : Free(r) /\ \A q \in 1..(r - 1) : ~Free(q)
    IN  workers' = [workers EXCEPT ![new] = w]

\* refresh(), lines 694-744, with `mode` the value it reads from current_mode:
\* _set_busy(True, ...), then the worker thread is started.
refresh(mode) ==
    /\ CanStart
    /\ busy' = TRUE
    /\ StartThread([NoWorker EXCEPT !.kind = "refresh", !.pc = "r_start",
                                    !.mode = mode, !.query = Strip(search_text)])

\* The pc of an action worker that is about to test its loop at index i
LoopPc(cmds, i, refresh_after) ==
    IF i <= Len(cmds) THEN "a_cmd"
    ELSE IF refresh_after THEN "a_refreshing"
    ELSE "a_done"

\* _run_many, lines 877-894
run_many(title, cmd_lists, refresh_after) ==
    /\ CanStart
    /\ busy' = TRUE
    /\ StartThread([NoWorker EXCEPT !.kind = "action",
                                    !.pc = LoopPc(cmd_lists, 1, refresh_after),
                                    !.title = title, !.cmds = cmd_lists,
                                    !.refresh_after = refresh_after, !.i = 1])

\* The rest of __init__ (lines 220-227): _check_winget calls run_winget on
\* the calling thread (its result only decides a message box), _poll_queue
\* finds the queue empty, and refresh() loads the upgrades.
Startup ==
    /\ mpc = "init"
    /\ mpc' = "mainloop"
    /\ main_calls' = Append(main_calls, VersionCmd)
    /\ refresh(current_mode)
    /\ UNCHANGED << current_mode, search_text, opts, pins, all_rows, tree, sortVars,
                    work_q, after_refresh, histVars, fnVars >>

\* A trigger is in reach of the user: the toolbar widgets are disabled while
\* busy, the entries of the context menu never are.  A callback that is due
\* at once runs before input that arrives after it.
Reach(via) ==
    /\ mpc = "mainloop"
    /\ after_refresh = << >>
    /\ via \in { "toolbar", "menu" }
    /\ (via = "toolbar" => ~busy)

handlerFrame ==
    << mpc, search_text, opts, pins, all_rows, tree, sortVars, work_q,
       histVars, main_calls, fnVars >>

\* The Refresh button, Return in the search box (toolbar), the Refresh
\* entry of the context menu
RefreshClicked(via) ==
    /\ Reach(via)
    /\ refresh(current_mode)
    /\ UNCHANGED << handlerFrame, current_mode, after_refresh >>

\* <<ComboboxSelected>> of the mode box
ModeSelected(m) ==
    /\ Reach("toolbar")
    /\ current_mode' = m
    /\ refresh(m)
    /\ UNCHANGED << handlerFrame, after_refresh >>

\* The callback a finished action worker left with after(0, self.refresh)
AfterRefresh ==
    /\ mpc = "mainloop"
    /\ after_refresh # << >>
    /\ after_refresh' = Tail(after_refresh)
    /\ refresh(current_mode)
    /\ UNCHANGED << handlerFrame, current_mode >>

\* <KeyRelease> in the search box after the text became q: _on_filter_change,
\* _apply_filter_only
SearchTyped(q) ==
    /\ Reach("toolbar")
    /\ q # search_text
    /\ search_text' = q
    /\ tree' = IF current_mode = "Search" THEN tree
               ELSE FillTable(FilterRows(all_rows, q))
    /\ UNCHANGED << mpc, busy, current_mode, opts, pins, all_rows, sortVars, work_q,
                    after_refresh, workers, histVars, main_calls, fnVars >>

\* A click on one of the option check buttons (lines 274-278), which
\* _set_busy leaves enabled
option_toggled(name) ==
    /\ mpc = "mainloop"
    /\ after_refresh = << >>
    /\ opts' = [opts EXCEPT ![name] = ~@]
    /\ UNCHANGED << mpc, busy, current_mode, search_text, pins, all_rows, tree, sortVars,
                    work_q, after_refresh, workers, histVars, main_calls, fnVars >>

\* dict.get(key, default)
GetOr(d, key, default) == IF key \in DOMAIN d THEN d[key] ELSE default

on_sort_ascending(col) ==
    /\ mpc = "mainloop"
    /\ after_refresh = << >>
    /\ sort_col' = col
    /\ sort_reverse' = FALSE
    /\ sort_reverse_by_col' = (col :> TRUE) @@ sort_reverse_by_col
    /\ last_click' = Clicked(col, FALSE, SortTree(tree, col, FALSE))
    /\ tree' = SortTree(tree, col, FALSE)
    /\ UNCHANGED << mpc, busy, current_mode, search_text, opts, pins, all_rows, work_q,
                    after_refresh, workers, histVars, main_calls, fnVars >>

\* _on_sort: a click on the header of column col
on_sort(col) ==
    /\ mpc = "mainloop"
    /\ after_refresh = << >>
    /\ LET reverse == GetOr(sort_reverse_by_col, col, FALSE)
       IN  /\ sort_col' = col
           /\ sort_reverse' = reverse
           /\ sort_reverse_by_col' = (col :> ~reverse) @@ sort_reverse_by_col
           /\ last_click' = Clicked(col, reverse, SortTree(tree, col, reverse))
           /\ tree' = SortTree(tree, col, reverse)
    /\ UNCHANGED << mpc, busy, current_mode, search_text, opts, pins, all_rows, work_q,
                    after_refresh, workers, histVars, main_calls, fnVars >>

actionFrame == << handlerFrame, current_mode, after_refresh >>

CmdsFor(ids, Build(_, _)) == [k \in 1..Len(ids) |-> Build(ids[k], opts)]

\* sel: the positions of the rows selected in the table
install_selected(via, sel) ==
    /\ Reach(via)
    /\ SelectedIds(tree, sel) # << >>
    /\ run_many("Install", CmdsFor(SelectedIds(tree, sel), InstallCmd), FALSE)
    /\ UNCHANGED actionFrame

upgrade_selected(via, sel) ==
    /\ Reach(via)
    /\ SelectedIds(tree, sel) # << >>
    /\ run_many("Upgrade", CmdsFor(SelectedIds(tree, sel), UpgradeCmd), FALSE)
    /\ UNCHANGED actionFrame

\* the user answers yes to the confirmation (no leaves the state as it is)
upgrade_all(via) ==
    /\ Reach(via)
    /\ run_many("Upgrade All", << UpgradeAllCmd(opts) >>, FALSE)
    /\ UNCHANGED actionFrame

\* the user answers yes to the confirmation
uninstall_selected(via, sel) ==
    /\ Reach(via)
    /\ SelectedIds(tree, sel) # << >>
    /\ run_many("Uninstall", CmdsFor(SelectedIds(tree, sel), UninstallCmd), FALSE)
    /\ UNCHANGED actionFrame

pin_selected(via, sel) ==
    /\ Reach(via)
    /\ SelectedIds(tree, sel) # << >>
    /\ run_many("Pin", CmdsFor(SelectedIds(tree, sel), PinCmd), TRUE)
    /\ UNCHANGED actionFrame

unpin_selected(via, sel) ==
    /\ Reach(via)
    /\ SelectedIds(tree, sel) # << >>
    /\ run_many("Unpin", CmdsFor(SelectedIds(tree, sel), UnpinCmd), TRUE)
    /\ UNCHANGED actionFrame

\* The run of r is over once its thread has ended and every event it put was
\* handled; the histories then forget it.
Forget(over) ==
    /\ workers' = [r \in Runs |-> IF over[r] THEN NoWorker ELSE workers[r]]
    /\ emitted' = [r \in Runs |-> IF over[r] THEN << >> ELSE emitted[r]]
    /\ invoked' = [r \in Runs |-> IF over[r] THEN << >> ELSE invoked[r]]

\* _poll_queue, the timer callback of the main loop: every event in the
\* queue is handled, in the order get_nowait hands them out.
poll_queue ==
    /\ mpc = "mainloop"
    /\ work_q # << >>
    /\ LET st == Drain(work_q, [ all_rows |-> all_rows, tree |-> tree,
                                 busy |-> busy, processed |-> processed ])
           over == [r \in Runs |-> workers[r].pc = "end"
                                   /\ st.processed[r] = emitted[r]]
       IN  /\ all_rows' = st.all_rows
           /\ tree' = st.tree
           /\ busy' = st.busy
           /\ processed' = [r \in Runs |-> IF over[r] THEN << >> ELSE st.processed[r]]
           /\ Forget(over)
    /\ work_q' = << >>
    /\ UNCHANGED << mpc, current_mode, search_text, opts, pins, sortVars, after_refresh,
                    main_calls, fnVars >>

\* ---------------------------------------------- worker thread of refresh()

W(r) == workers[r]

Step(r, w) == workers' = [workers EXCEPT ![r] = w]

Call(r, cmd) == invoked' = [invoked EXCEPT ![r] = Append(@, cmd)]

workerFrame ==
    << mpc, busy, current_mode, search_text, opts, all_rows, tree, sortVars,
       after_refresh, processed, main_calls, fnVars >>

\* line 705, and get_pins enters run_winget(["pin", "list"])
r_start(r) ==
    /\ W(r).pc = "r_start"
    /\ Emit(r, "status", [tag |-> "Reading pins..."])
    /\ Call(r, PinListCmd)
    /\ Step(r, [W(r) EXCEPT !.pc = "r_pins"])
    /\ UNCHANGED << workerFrame, pins >>

\* line 706: run_winget returns, self.pins is assigned; then the branch on
\* the mode, up to the call of run_winget for the listing
r_pins(r, res) ==
    /\ W(r).pc = "r_pins"
    /\ LET p == GetPins(res.rc, res.table)
           hint == W(r).mode = "Search" /\ W(r).query = << >>
       IN  /\ pins' = p
           /\ Step(r, [W(r) EXCEPT !.snap = p, !.pin_rc = res.rc,
                                   !.pc = IF hint THEN "r_hint" ELSE "r_list"])
           /\ IF hint THEN UNCHANGED invoked
              ELSE Call(r, ListingCmd(W(r).mode, W(r).query, opts))
    /\ UNCHANGED << workerFrame, work_q, emitted >>

\* lines 710-712, Search mode without a search term
r_hint(r) ==
    /\ W(r).pc = "r_hint"
    /\ Emit(r, "log", [tag |-> "Search mode: enter a search term."])
    /\ Step(r, [W(r) EXCEPT !.pc = "r_hint_table"])
    /\ UNCHANGED << workerFrame, pins, invoked >>

r_hint_table(r) ==
    /\ W(r).pc = "r_hint_table"
    /\ Emit(r, "table", [rows |-> << >>])
    /\ Step(r, [W(r) EXCEPT !.pc = "r_done"])
    /\ UNCHANGED << workerFrame, pins, invoked >>

\* run_winget returns the listing; the log event; _to_rows begins
r_list(r, res) ==
    /\ W(r).pc = "r_list"
    /\ Emit(r, "log", [tag |-> "cmd", cmd |-> invoked[r][Len(invoked[r])],
                       out |-> res.out])
    /\ Step(r, [W(r) EXCEPT !.raw = res.table, !.built = << >>, !.i = 1,
                            !.pc = IF res.table = << >> THEN "r_all"
                                   ELSE "r_row_get"])
    /\ UNCHANGED << workerFrame, pins, invoked >>

\* _to_rows, line 756: the first read of self.pins for row i
r_row_get(r) ==
    /\ W(r).pc = "r_row_get"
    /\ Step(r, [W(r) EXCEPT !.pin = PinLookup(pins, W(r).raw[W(r).i]),
                            !.pc = "r_row_in"])
    /\ UNCHANGED << workerFrame, pins, invoked, work_q, emitted >>

\* _to_rows, lines 757-765: the second read of self.pins, the row is appended
r_row_in(r) ==
    /\ W(r).pc = "r_row_in"
    /\ Step(r, [W(r) EXCEPT
                  !.built = Append(@, MakeRow(W(r).raw[W(r).i], W(r).pin,
                                              PinnedYes(pins, W(r).raw[W(r).i]))),
                  !.pin = << >>,
                  !.i = @ + 1,
                  !.pc = IF W(r).i = Len(W(r).raw) THEN "r_all" ELSE "r_row_get"])
    /\ UNCHANGED << workerFrame, pins, invoked, work_q, emitted >>

r_all(r) ==
    /\ W(r).pc = "r_all"
    /\ Emit(r, "all_rows", [rows |-> W(r).built])
    /\ Step(r, [W(r) EXCEPT !.pc = "r_table"])
    /\ UNCHANGED << workerFrame, pins, invoked >>

r_table(r) ==
    /\ W(r).pc = "r_table"
    /\ Emit(r, "table", [rows |-> FilterRows(W(r).built, W(r).query)])
    /\ Step(r, [W(r) EXCEPT !.pc = "r_done"])
    /\ UNCHANGED << workerFrame, pins, invoked >>

\* the last statement of the thread
r_done(r) ==
    /\ W(r).pc = "r_done"
    /\ Emit(r, "done", [tag |-> "None"])
    /\ Step(r, [W(r) EXCEPT !.pc = "end"])
    /\ UNCHANGED << workerFrame, pins, invoked >>

\* --------------------------------------------- worker thread of _run_many

a_cmd_from0(r) ==
    /\ W(r).pc = "a_cmd"
    /\ Emit(r, "status", [ tag |-> "progress", title |-> W(r).title, i |-> W(r).i - 1,
                           total |-> IF Len(W(r).cmds) > 1 THEN Len(W(r).cmds) ELSE 1,
                           cmd |-> W(r).cmds[W(r).i] ])
    /\ Call(r, W(r).cmds[W(r).i])
    /\ Step(r, [W(r) EXCEPT !.pc = "a_run"])
    /\ UNCHANGED << workerFrame, pins >>

\* lines 882-885: the progress event of command i, run_winget is entered
a_cmd(r) ==
    /\ W(r).pc = "a_cmd"
    /\ Emit(r, "status", [ tag |-> "progress", title |-> W(r).title, i |-> W(r).i,
                           total |-> IF Len(W(r).cmds) > 1 THEN Len(W(r).cmds) ELSE 1,
                           cmd |-> W(r).cmds[W(r).i] ])
    /\ Call(r, W(r).cmds[W(r).i])
    /\ Step(r, [W(r) EXCEPT !.pc = "a_run"])
    /\ UNCHANGED << workerFrame, pins >>

a_run_halt(r, res) ==
    /\ W(r).pc = "a_run"
    /\ Emit(r, "log", [tag |-> "cmd", cmd |-> W(r).cmds[W(r).i], out |-> res.out])
    /\ Step(r, [W(r) EXCEPT
                  !.i = @ + 1,
                  !.pc = IF res.rc # 0
                         THEN LoopPc(W(r).cmds, Len(W(r).cmds) + 1, W(r).refresh_after)
                         ELSE LoopPc(W(r).cmds, W(r).i + 1, W(r).refresh_after)])
    /\ UNCHANGED << workerFrame, pins, invoked >>

\* lines 885-887: run_winget returns (the exit code is not looked at), the
\* log event of command i; the loop goes on
a_run(r, res) ==
    /\ W(r).pc = "a_run"
    /\ Emit(r, "log", [tag |-> "cmd", cmd |-> W(r).cmds[W(r).i], out |-> res.out])
    /\ Step(r, [W(r) EXCEPT !.i = @ + 1,
                            !.pc = LoopPc(W(r).cmds, W(r).i + 1, W(r).refresh_after)])
    /\ UNCHANGED << workerFrame, pins, invoked >>

\* lines 888-889
a_refreshing(r) ==
    /\ W(r).pc = "a_refreshing"
    /\ Emit(r, "status", [tag |-> "Refreshing..."])
    /\ Step(r, [W(r) EXCEPT !.pc = "a_done"])
    /\ UNCHANGED << workerFrame, pins, invoked >>

a_done_silent(r) ==
    /\ W(r).pc = "a_done"
    /\ Step(r, [W(r) EXCEPT !.pc = "a_after"])
    /\ UNCHANGED << workerFrame, pins, invoked, work_q, emitted >>

\* line 890
a_done(r) ==
    /\ W(r).pc = "a_done"
    /\ Emit(r, "done", [tag |-> "None"])
    /\ Step(r, [W(r) EXCEPT !.pc = "a_after"])
    /\ UNCHANGED << workerFrame, pins, invoked >>

\* line 892, the last statement of the thread: self.after(0, self.refresh),
\* whatever refresh_after is.  The callback remembers the run it came from.
a_after(r) ==
    /\ W(r).pc = "a_after"
    /\ after_refresh' = Append(after_refresh,
                               [refresh_after |-> W(r).refresh_after, run |-> r])
    /\ IF processed[r] = emitted[r]
       THEN /\ Forget([q \in Runs |-> q = r])
            /\ processed' = [processed EXCEPT ![r] = << >>]
       ELSE /\ Step(r, [W(r) EXCEPT !.pc = "end"])
            /\ UNCHANGED << emitted, invoked, processed >>
    /\ UNCHANGED << mpc, busy, current_mode, search_text, opts, all_rows, tree,
                    sortVars, main_calls, fnVars, pins, work_q >>

\* ---------------------------------------------------------- specification

Vias == { "toolbar", "menu" }

Selections == SUBSET (1..Len(tree))

\* The triggers that start a refresh
RefreshTriggers(vias, modes) ==
    \/ AfterRefresh
    \/ \E via \in vias : RefreshClicked(via)
    \/ \E m \in modes : ModeSelected(m)

\* The triggers that start an action run
ActionTriggers(vias) ==
    \/ \E via \in vias : upgrade_all(via)
    \/ \E via \in vias, sel \in Selections : install_selected(via, sel)
    \/ \E via \in vias, sel \in Selections : upgrade_selected(via, sel)
    \/ \E via \in vias, sel \in Selections : uninstall_selected(via, sel)
    \/ \E via \in vias, sel \in Selections : pin_selected(via, sel)
    \/ \E via \in vias, sel \in Selections : unpin_selected(via, sel)

\* The thread of a refresh in Search mode without a search term, from
\* line 709 on
HintWorker(r) ==
    \/ r_hint(r)
    \/ r_hint_table(r)

\* The thread of a refresh, with what winget may answer
RefreshWorker(r, pin_results, list_results) ==
    \/ r_start(r)
    \/ \E res \in pin_results : r_pins(r, res)
    \/ \E res \in list_results : r_list(r, res)
    \/ r_row_get(r)
    \/ r_row_in(r)
    \/ r_all(r)
    \/ r_table(r)
    \/ r_done(r)

\* The thread of an action run, with what winget may answer
ActionWorker(r, action_results) ==
    \/ a_cmd(r)
    \/ \E res \in action_results : a_run(r, res)
    \/ a_refreshing(r)
    \/ a_done(r)
    \/ a_after(r)

\* The application as a whole: every trigger by every way, any number of
\* runs one after the other and MaxActive at a time, with a winget that has
\* one package to list and one pin.
Next ==
    \/ Startup
    \/ poll_queue
    \/ RefreshTriggers(Vias, Modes)
    \/ \E q \in Queries : SearchTyped(q)
    \/ ActionTriggers(Vias)
    \/ \E r \in Runs : RefreshWorker(r, PinsKept, ListOne)
    \/ \E r \in Runs : HintWorker(r)
    \/ \E r \in Runs : ActionWorker(r, ActionOk)

Spec == Init /\ [][Next]_vars

\* What the user does from the toolbar once no thread is running: a refresh,
\* a mode, a search term, an action on a selection
UserActs ==
    /\ \A r \in Runs : ~Alive(r)
    /\ \/ RefreshClicked("toolbar")
       \/ \E m \in Modes : ModeSelected(m)
       \/ \E q \in Queries : SearchTyped(q)
       \/ ActionTriggers({ "toolbar" })

\* Every thread of run r
Worker(r) ==
    \/ RefreshWorker(r, PinsKept, ListOne)
    \/ HintWorker(r)
    \/ ActionWorker(r, ActionOk)

\* The application driven from the toolbar, with its scheduling: __init__
\* runs to its end, the main loop runs the timer callback _poll_queue (which
\* re-arms itself, line 391) and the callbacks of after(0, ...), and every
\* thread started goes on running, every call of run_winget returning.  A
\* thread never waits for room in the queue (queue.Queue() has no bound), so
\* a worker that can step again and again does step.
NextLive ==
    \/ Startup
    \/ poll_queue
    \/ AfterRefresh
    \/ UserActs
    \/ \E r \in Runs : Worker(r)

SpecLive ==
    /\ Init
    /\ [][NextLive]_vars
    /\ WF_vars(Startup)
    /\ WF_vars(poll_queue)
    /\ WF_vars(AfterRefresh)
    /\ \A r \in Runs : SF_vars(Worker(r))

\* One action run: the start-up refresh lists MaxRows packages, then any one
\* action is started from the toolbar on any selection, once no other thread
\* is left, and winget may fail any of its commands.
NextRun ==
    \/ Startup
    \/ poll_queue
    \/ (\A r \in Runs : ~Alive(r)) /\ ActionTriggers({ "toolbar" })
    \/ \E r \in Runs : RefreshWorker(r, PinsKept, ListMany)
    \/ \E r \in Runs : ActionWorker(r, ActionResults)

SpecRun == Init /\ [][NextRun]_vars

\* Refreshes only, as many at a time as the context menu lets the user
\* start, with a winget whose pins change between two calls.
NextPins ==
    \/ Startup
    \/ poll_queue
    \/ \E via \in Vias : RefreshClicked(via)
    \/ \E r \in Runs : RefreshWorker(r, PinListResults, ListResults)

SpecPins == Init /\ [][NextPins]_vars

\* The command lines: the start-up refresh lists packages with repeated and
\* missing identifiers; the user sets the options, then starts any one action
\* from the toolbar on any selection.
NextCmds ==
    \/ Startup
    \/ poll_queue
    \/ (\A r \in Runs : ~Alive(r)) /\ \E name \in DOMAIN opts : option_toggled(name)
    \/ (\A r \in Runs : ~Alive(r)) /\ ActionTriggers({ "toolbar" })
    \/ \E r \in Runs : RefreshWorker(r, PinsKept, ListDup)
    \/ \E r \in Runs : ActionWorker(r, ActionOk)

SpecCmds == Init /\ [][NextCmds]_vars

\* Refreshes only, as many at a time as the context menu lets the user
\* start, with a winget whose pin listing may fail
NextPinFail ==
    \/ Startup
    \/ poll_queue
    \/ \E via \in Vias : RefreshClicked(via)
    \/ \E r \in Runs : RefreshWorker(r, PinsOrFailure, ListOne)

SpecPinFail == Init /\ [][NextPinFail]_vars

\* _to_rows as a function of its argument and of self.pins
InitRows ==
    /\ AppFields
    /\ fn_out = NoCall
    /\ fn_in \in { [op |-> "to_rows", table_rows |-> t, pins |-> p] :
                      t \in SeqsUpTo(RawSamples, MaxTable), p \in PinMaps }

to_rows ==
    /\ fn_in.op = "to_rows"
    /\ fn_out = NoCall
    /\ fn_out' = [op |-> "to_rows", rows |-> ToRows(fn_in.table_rows, fn_in.pins)]
    /\ UNCHANGED << mpc, busy, current_mode, search_text, opts, pins, all_rows, tree,
                    sortVars, work_q, after_refresh, workers, histVars, main_calls,
                    fn_in >>

NextRows == to_rows

pureFrame ==
    << mpc, busy, current_mode, search_text, opts, pins, all_rows, tree, sortVars,
       work_q, after_refresh, workers, histVars, main_calls, fn_in >>

\* parse_winget_table as a function of the lines of its argument
InitParse ==
    /\ AppFields
    /\ fn_out = NoCall
    /\ fn_in \in { [op |-> "parse", lines |-> t] : t \in SeqsUpTo(ParseLines, MaxLines) }

parse_winget_table ==
    /\ fn_in.op = "parse"
    /\ fn_out = NoCall
    /\ fn_out' = [op |-> "parse", result |-> ParseWingetTable(fn_in.lines)]
    /\ UNCHANGED pureFrame

NextParse == parse_winget_table

SpecParse == InitParse /\ [][NextParse]_vars

SpecRows == InitRows /\ [][NextRows]_vars

\* parse_winget_table from the header line it found to the slices of the
\* columns, lines 119-144
InitSlices ==
    /\ AppFields
    /\ fn_out = NoCall
    /\ fn_in \in { [op |-> "slices", header_line |-> h] : h \in HeaderSamples }

column_slices ==
    /\ fn_in.op = "slices"
    /\ fn_out = NoCall
    /\ fn_out' = [op |-> "slices", slices |-> Slices(fn_in.header_line)]
    /\ UNCHANGED pureFrame

NextSlices == column_slices

SpecSlices == InitSlices /\ [][NextSlices]_vars

\* _cell_key on two cells of one version column, and Python's comparison of
\* the two keys as list.sort makes it
InitKeys ==
    /\ AppFields
    /\ fn_out = NoCall
    /\ fn_in \in { [op |-> "cell_key", col |-> c, a |-> x, b |-> y] :
                      c \in VersionCols, x \in VersionSamples, y \in VersionSamples }

cell_key ==
    /\ fn_in.op = "cell_key"
    /\ fn_out = NoCall
    /\ LET ka == CellKey(fn_in.col, fn_in.a)
           kb == CellKey(fn_in.col, fn_in.b)
       IN  fn_out' = [ op |-> "cell_key", ka |-> ka, kb |-> kb,
                       less |-> KeyLess(fn_in.col, ka, kb),
                       greater |-> KeyLess(fn_in.col, kb, ka) ]
    /\ UNCHANGED pureFrame

NextKeys == cell_key

SpecKeys == InitKeys /\ [][NextKeys]_vars

\* The rows a table may display, as _to_rows builds them
DisplayedSamples == { ToRows(<< SortPkg(k) >>, << >>)[1] : k \in 1..(MaxRows + 1) }

\* _sort_tree on a table of up to MaxRows rows, and again on its result
InitSortTree ==
    /\ AppFields
    /\ fn_out = NoCall
    /\ fn_in \in { [op |-> "sort_tree", rows |-> t, col |-> c, reverse |-> d] :
                      t \in SeqsUpTo(DisplayedSamples, MaxRows), c \in SortCols,
                      d \in BOOLEAN }

sort_tree ==
    /\ fn_in.op = "sort_tree"
    /\ fn_out = NoCall
    /\ LET once == SortTree(fn_in.rows, fn_in.col, fn_in.reverse)
       IN  fn_out' = [ op |-> "sort_tree", once |-> once,
                       twice |-> SortTree(once, fn_in.col, fn_in.reverse) ]
    /\ UNCHANGED pureFrame

NextSortTree == sort_tree

SpecSortTree == InitSortTree /\ [][NextSortTree]_vars

\* run_winget on a command of the program, with every outcome of the search
\* for winget and of the child process; the timeout expires only when one
\* was given
InitRunner ==
    /\ AppFields
    /\ fn_out = NoCall
    /\ fn_in \in { [op |-> "run_winget", exe |-> x, args |-> a, timeout |-> t, proc |-> p] :
                      x \in WhichResults,
                      a \in { VersionCmd, PinListCmd, ListingCmd("Search", tFoo, opts) },
                      t \in Timeouts, p \in Procs }
    /\ fn_in.proc.kind = "TimeoutExpired" => fn_in.timeout.given

run_winget ==
    /\ fn_in.op = "run_winget"
    /\ fn_out = NoCall
    /\ fn_out' = [ op |-> "run_winget",
                   result |-> RunWinget(fn_in.exe, fn_in.args, fn_in.timeout, fn_in.proc) ]
    /\ UNCHANGED pureFrame

NextRunner == run_winget

SpecRunner == InitRunner /\ [][NextRunner]_vars

\* Sorting: the start-up refresh lists MaxRows packages; between two
\* refreshes the user clicks headers, and the Refresh button.
NextSort ==
    \/ Startup
    \/ poll_queue
    \/ (\A r \in Runs : ~Alive(r)) /\ RefreshClicked("toolbar")
    \/ \E r \in Runs : RefreshWorker(r, PinsKept, ListSort)
    \/ (\A r \in Runs : ~Alive(r)) /\ \E col \in SortCols : on_sort(col)

SpecSort == Init /\ [][NextSort]_vars

\* What the user types to filter the packages of ListSort: nothing, or a
\* letter that two of the first three have in the name or the identifier
SortQueries == { << >>, << "a" >> }

\* The headers clicked: a text column, a version column, the Pinned column
ShownCols == { "Name", "Version", "Pinned" }

\* The table as displayed: the packages of ListSort are loaded, any number of
\* times, and between the refreshes the user clicks headers and changes the
\* text of the local filter.
NextShown ==
    \/ Startup
    \/ poll_queue
    \/ (\A r \in Runs : ~Alive(r)) /\ RefreshClicked("toolbar")
    \/ \E r \in Runs : RefreshWorker(r, PinsKept, ListSort)
    \/ (\A r \in Runs : ~Alive(r)) /\ \E col \in ShownCols : on_sort(col)
    \/ (\A r \in Runs : ~Alive(r)) /\ \E q \in SortQueries : SearchTyped(q)

SpecShown == Init /\ [][NextShown]_vars

\* ----------------------------------------------------------------- claims

\* The events of run r that wait in the work queue, in the order of the queue
Queued(r) == SelectSeq(work_q, LAMBDA e : e.run = r)

\* C1: the commands of two action runs are never executed concurrently: no
\* two action workers are inside run_winget at the same time.
C1_ActionRunsNeverOverlap ==
    \A r1, r2 \in Runs :
        (r1 # r2 /\ W(r1).kind = "action" /\ W(r2).kind = "action")
            => ~(Executing(r1) /\ Executing(r2))

\* C2: at most one background run of any kind is active: while a refresh
\* worker is inside run_winget no other worker, refresh or action, is.
C2_OneRunAtATime ==
    \A r1, r2 \in Runs :
        (r1 # r2 /\ W(r1).kind = "refresh" /\ Executing(r1)) => ~Executing(r2)

\* C3: the system is busy for as long as a worker is executing WinGet
\* commands: busy is never cleared while a worker is inside run_winget.
C3_BusyWhileExecuting == \A r \in Runs : Executing(r) => busy

\* C4: a listing refresh is triggered after a run only if the run was marked
\* refresh-after: every pending refresh callback comes from such a run.
C4_RefreshOnlyWhenMarked ==
    \A k \in 1..Len(after_refresh) : after_refresh[k].refresh_after

IsProgress(e, w, i) ==
    /\ e.kind = "status"
    /\ e.payload = [ tag |-> "progress", title |-> w.title, i |-> i,
                     total |-> Len(w.cmds), cmd |-> w.cmds[i] ]

IsLog(e, w, i) == e.kind = "log" /\ e.payload.tag = "cmd" /\ e.payload.cmd = w.cmds[i]

IsRefreshing(e) == e.kind = "status" /\ e.payload = [tag |-> "Refreshing..."]

Finished(r) == W(r).kind = "action" /\ W(r).pc \in { "a_after", "end" }

\* C5 as stated: the events a finished run of n commands has emitted are
\* status_1, log_1, ..., status_n, log_n, then completion, and nothing else.
C5_StatusLogThenDone ==
    \A r \in Runs :
        Finished(r) =>
            LET w == W(r)
                n == Len(w.cmds)
                ev == emitted[r]
            IN  /\ Len(ev) = 2 * n + 1
                /\ \A i \in 1..n : IsProgress(ev[2 * i - 1], w, i) /\ IsLog(ev[2 * i], w, i)
                /\ ev[2 * n + 1].kind = "done"

\* e is what an action run w puts as its j-th event, when a refresh-after
\* run puts the status "Refreshing..." between its last log and completion
ExpectedAt(w, j, e) ==
    LET n == Len(w.cmds)
    IN  IF j <= 2 * n
        THEN IF j % 2 = 1 THEN IsProgress(e, w, (j + 1) \div 2) ELSE IsLog(e, w, j \div 2)
        ELSE IF w.refresh_after /\ j = 2 * n + 1 THEN IsRefreshing(e)
        ELSE j = 2 * n + (IF w.refresh_after THEN 2 ELSE 1) /\ e.kind = "done"

\* C5 (amended): a run of n argument lists invokes run_winget once per list
\* in list order; command i+1 is invoked only after the log event of command
\* i; the events of the run are status_1, log_1, ..., status_n, log_n, then
\* the status "Refreshing..." if the run is refresh-after, then completion.
C5_RunEventsInOrder ==
    \A r \in Runs :
        W(r).kind = "action" =>
            LET w == W(r)
                n == Len(w.cmds)
                ev == emitted[r]
                k == Len(invoked[r])
            IN  /\ \A j \in 1..Len(ev) : ExpectedAt(w, j, ev[j])
                /\ k <= n
                /\ \A i \in 1..k : invoked[r][i] = w.cmds[i]
                /\ k = IF Len(ev) <= 2 * n THEN (Len(ev) + 1) \div 2 ELSE n
                /\ Finished(r) => Len(ev) = 2 * n + (IF w.refresh_after THEN 2 ELSE 1)

\* a refresh-after run of three commands has finished
C5_Witness ==
    \E r \in Runs : Finished(r) /\ Len(W(r).cmds) >= 3 /\ W(r).refresh_after

Count(ev, kind) == Len(SelectSeq(ev, LAMBDA e : e.kind = kind))

\* C6: failing commands do not halt a run: whatever the exit codes, a
\* finished run of n argument lists has executed all n commands and emitted
\* n log events and one completion event, and no run emits a second one.
C6_FailuresDoNotHalt ==
    \A r \in Runs :
        W(r).kind = "action" =>
            /\ Count(emitted[r], "done") <= 1
            /\ Finished(r) =>
                   /\ Len(invoked[r]) = Len(W(r).cmds)
                   /\ Count(emitted[r], "log") = Len(W(r).cmds)
                   /\ Count(emitted[r], "done") = 1

\* a run of three commands has finished after its second command failed
C6_Witness ==
    \E r \in Runs :
        /\ Finished(r)
        /\ Len(W(r).cmds) >= 3
        /\ emitted[r][4].payload.out = "failed"
        /\ emitted[r][6].payload.out = "ok"

\* C7: the events of a run are handled in the order the worker put them,
\* none lost and none twice: what was handled, followed by what still waits
\* in the queue, is what the worker has put.
C7_EventsInOrder == \A r \in Runs : emitted[r] = processed[r] \o Queued(r)

\* the events of two runs wait in the queue, after events of both were handled
C7_Witness ==
    \E r1, r2 \in Runs :
        /\ r1 # r2
        /\ Len(processed[r1]) >= 2
        /\ processed[r2] # << >>
        /\ Queued(r1) # << >>
        /\ Queued(r2) # << >>

\* C8: every record a refresh has built is joined against the snapshot that
\* refresh loaded: pinned is "Yes" iff the id is a key of that snapshot.
C8_RowsJoinOwnSnapshot ==
    \A r \in Runs :
        W(r).kind = "refresh" =>
            \A k \in 1..Len(W(r).built) :
                (W(r).built[k].pinned = sYes) <=> (W(r).built[k].id \in DOMAIN W(r).snap)

\* C9: the main thread never calls run_winget
C9_MainNeverRunsWinget == main_calls = << >>

\* The identifier of a raw row: the value under "Id", else the one under "ID"
ResolvedId(raw) ==
    IF sId \in DOMAIN raw /\ raw[sId] # << >> THEN raw[sId]
    ELSE IF sID \in DOMAIN raw THEN raw[sID]
    ELSE << >>

\* C10: _to_rows yields one record per raw row, in the same order, and a
\* record is pinned ("Yes", else "No") iff its id is a key of the pin mapping.
C10_PinnedIffKey ==
    fn_out.op = "to_rows" =>
        LET src == fn_in.table_rows
            dst == fn_out.rows
        IN  /\ Len(dst) = Len(src)
            /\ \A k \in 1..Len(src) :
                  /\ dst[k].id = ResolvedId(src[k])
                  /\ dst[k].pinned = IF dst[k].id \in DOMAIN fn_in.pins THEN sYes ELSE sNo

\* the same pinned raw row twice, identified by "ID": two pinned records
C10_Witness ==
    /\ fn_out.op = "to_rows"
    /\ Len(fn_in.table_rows) = 2
    /\ fn_in.table_rows[1] = fn_in.table_rows[2]
    /\ sID \in DOMAIN fn_in.table_rows[1]
    /\ Len(fn_out.rows) = 2
    /\ fn_out.rows[1].pinned = sYes
    /\ fn_out.rows[2].pinned = sYes

\* The text of scenario 1
Scenario1 == << lnHeader, lnRule, lnFooBar >>

\* C11 as stated: scenario 1 yields one record with name "Foo", id
\* "Foo.Bar", version "1.0".
C11_ScenarioAsStated ==
    (fn_out.op = "parse" /\ fn_in.lines = Scenario1) =>
        LET recs == ToRows(fn_out.result.rows, << >>)
        IN  /\ Len(recs) = 1
            /\ recs[1].name = tFoo
            /\ recs[1].id = tFooBar
            /\ recs[1].version = t10

\* ln[a..b-1] (from 0) is a cell of ln: text without two spaces in a row,
\* with two spaces or more, or the end of the line, on either side
CellAt(ln, a, b) ==
    /\ 0 <= a /\ a < b /\ b <= Len(ln)
    /\ ln[a + 1] # " " /\ ln[b] # " "
    /\ \A i \in (a + 1)..(b - 1) : ~(ln[i] = " " /\ ln[i + 1] = " ")
    /\ a = 0 \/ (ln[a] = " " /\ (a = 1 \/ ln[a - 1] = " "))
    /\ b = Len(ln) \/ (ln[b + 1] = " " /\ (b + 1 = Len(ln) \/ ln[b + 2] = " "))

\* A table without blank lines: a header of distinct labels, the delimiter
\* row, data lines
WellFormed(t) ==
    /\ Len(t) >= 3
    /\ \A j \in 1..Len(t) : Strip(t[j]) # << >>
    /\ IsHeaderLine(t[1])
    /\ \A i, j \in 1..Len(ColNames(t[1])) : i # j => ColNames(t[1])[i] # ColNames(t[1])[j]
    /\ StartsWith(t[2], sDashes)

\* Line j of t is a data line the parser reads
DataLine(t, j) ==
    /\ j \in 3..Len(t)
    /\ ~StartsWith(Strip(t[j]), sDashes)
    /\ \A m \in 3..j : ~StartsWith(Lower(Strip(t[m])), sNoInstalled)

\* Cell a..b-1 of line ln lies in the span of column i of the header, which
\* holds nothing else
AloneInSpan(header_line, i, ln, a, b) ==
    LET names == ColNames(header_line)
        from == Find(header_line, names[i], 0)
        to == IF i < Len(names) THEN Find(header_line, names[i + 1], 0) ELSE Len(ln)
    IN  /\ from <= a
        /\ b <= to
        /\ \A q \in from..(to - 1) : (q < Len(ln) /\ q \notin a..(b - 1)) => ln[q + 1] = " "

\* C11 (amended): scenario 1 yields one row, cut at the offsets of the
\* header: Name "Foo", Id "Foo.", Version "Bar  1.0"; and in a table of
\* distinct labels a data cell that starts at or after the offset of its
\* column, ends at or before the offset of the next column and is alone in
\* that span is returned whole under the label of its column.
C11_CellsWithinSpan ==
    fn_out.op = "parse" =>
        LET t == fn_in.lines
            rows == fn_out.result.rows
        IN  /\ t = Scenario1 =>
                  rows = << (sName :> tFoo)
                            @@ (sId :> << "F", "o", "o", "." >>)
                            @@ (sVersion :> << "B", "a", "r", " ", " ", "1", ".", "0" >>) >>
            /\ WellFormed(t) =>
                  \A j \in 3..Len(t) :
                      DataLine(t, j) =>
                          \A i \in 1..Len(ColNames(t[1])), a \in 0..Len(t[j]), b \in 0..Len(t[j]) :
                              (CellAt(t[j], a, b) /\ AloneInSpan(t[1], i, t[j], a, b)) =>
                                  \E k \in 1..Len(rows) :
                                      rows[k][ColNames(t[1])[i]] = SubSeq(t[j], a + 1, b)

\* a data line cut to the columns was parsed: every cell under its label
C11_Witness ==
    /\ fn_out.op = "parse"
    /\ fn_in.lines = << lnHeader, lnRule, lnFit >>
    /\ Len(fn_out.result.rows) = 1
    /\ fn_out.result.rows[1][sId] = << "Q", "x" >>
    /\ fn_out.result.rows[1][sVersion] = t20

\* The header the parser takes: the first line that is not blank and names
\* Id with Name or Package (0 when there is none)
HeaderOf(t) ==
    LET at == { j \in 1..Len(t) : Strip(t[j]) # << >> /\ IsHeaderLine(t[j]) }
    IN  IF at = {} THEN 0 ELSE Min(at)

\* The labels of a header line, each with its place: the cells delimited by
\* two spaces or more
LabelCells(header_line) ==
    { c \in (0..Len(header_line)) \X (0..Len(header_line)) :
        CellAt(header_line, c[1], c[2]) }

Labels(header_line) ==
    { SubSeq(header_line, c[1] + 1, c[2]) : c \in LabelCells(header_line) }

\* C12 as stated: every row has exactly N keys, the N labels of the header.
C12_NKeys ==
    fn_out.op = "parse" =>
        \A k \in 1..Len(fn_out.result.rows) :
            LET header_line == fn_in.lines[HeaderOf(fn_in.lines)]
            IN  /\ DOMAIN fn_out.result.rows[k] = Labels(header_line)
                /\ Cardinality(DOMAIN fn_out.result.rows[k])
                       = Cardinality(LabelCells(header_line))

\* C12 (amended): every row is a mapping whose keys are exactly the labels of
\* the header line; it has N keys when the N labels are distinct (a label
\* that occurs twice is one key).
C12_KeysAreTheLabels ==
    fn_out.op = "parse" =>
        \A k \in 1..Len(fn_out.result.rows) :
            LET header_line == fn_in.lines[HeaderOf(fn_in.lines)]
                N == Cardinality(LabelCells(header_line))
            IN  /\ HeaderOf(fn_in.lines) # 0
                /\ DOMAIN fn_out.result.rows[k] = Labels(header_line)
                /\ Cardinality(Labels(header_line)) = N
                       => Cardinality(DOMAIN fn_out.result.rows[k]) = N

\* a row with empty cells was produced: a data line shorter than the offsets
\* of the second and third column
C12_Witness ==
    /\ fn_out.op = "parse"
    /\ fn_in.lines = << lnHeader, lnRule, lnShort >>
    /\ Len(fn_out.result.rows) = 1
    /\ DOMAIN fn_out.result.rows[1] = { sName, sId, sVersion }
    /\ fn_out.result.rows[1][sVersion] = << >>

\* The text has a header line and, after it, a dash separator line
HasPair(t) ==
    /\ HeaderOf(t) # 0
    /\ \E j \in (HeaderOf(t) + 1)..Len(t) : StartsWith(Strip(t[j]), sDashes)

\* C13: for every input text the parser returns a sequence and raises
\* nothing; without a header/separator pair the sequence is empty.
C13_TolerantParser ==
    fn_out.op = "parse" =>
        /\ fn_out.result.raised = NoFault
        /\ DOMAIN fn_out.result.rows = 1..Len(fn_out.result.rows)
        /\ ~HasPair(fn_in.lines) => fn_out.result.rows = << >>

\* a header without a separator after it, followed by a data line, was
\* parsed
C13_Witness ==
    /\ fn_out.op = "parse"
    /\ fn_in.lines = << lnHeader, lnFit >>
    /\ fn_out.result = [raised |-> NoFault, rows |-> << >>]

\* The displayed rows are in ascending (descending) order of the keys of
\* column col
Ascending(rows, col) ==
    \A i, j \in 1..Len(rows) :
        i < j => ~KeyLess(col, CellKey(col, Cell(rows[j], col)), CellKey(col, Cell(rows[i], col)))

Descending(rows, col) ==
    \A i, j \in 1..Len(rows) :
        i < j => ~KeyLess(col, CellKey(col, Cell(rows[i], col)), CellKey(col, Cell(rows[j], col)))

\* C14 as stated: a click on a header other than the current sort column
\* sorts ascending, whatever was clicked before.
C14_OtherColumnAscending ==
    [][\A col \in SortCols :
           (col # sort_col /\ on_sort(col)) =>
               (~sort_reverse' /\ Ascending(tree', col))]_vars

\* C14 (amended): a click on a header other than the current sort column
\* makes that column the sort column and sorts ascending when that header
\* was never clicked before, and otherwise in the direction opposite to the
\* one of the last click on that header, whatever was clicked since.
C14_OtherColumnOwnToggle ==
    [][\A col \in SortCols :
           (col # sort_col /\ on_sort(col)) =>
               /\ sort_col' = col
               /\ sort_reverse' = (IF col \in DOMAIN last_click.dir
                                   THEN ~last_click.dir[col] ELSE FALSE)
               /\ IF sort_reverse' THEN Descending(tree', col) ELSE Ascending(tree', col)]_vars

\* the last click selected Id while another column was the sort column, and
\* sorted descending
C14_Witness ==
    /\ last_click.col = "Id"
    /\ last_click.from # "Id"
    /\ last_click.dir["Id"] = TRUE
    /\ sort_col = "Id"
    /\ sort_reverse
    /\ tree = last_click.after
    /\ Descending(tree, "Id")
    /\ ~Ascending(tree, "Id")

\* C15: a click on the header of the current sort column reverses the
\* direction that was in effect before the click, in every reachable state,
\* the initial one (sorted by Name ascending) included.
C15_SameColumnReverses ==
    [][\A col \in SortCols :
           (col = sort_col /\ on_sort(col)) => sort_reverse' = ~sort_reverse]_vars

\* C16: two clicks in a row on the header of Name, the sort column, with the
\* rows displayed in ascending order before them, display the rows in exactly
\* the order they had before the two clicks.
C16_TwoTogglesRestore ==
    [][( /\ on_sort("Name")
         /\ sort_col = "Name"
         /\ last_click.col = "Name"
         /\ last_click.from = "Name"
         /\ ~last_click.from_reverse
         /\ Ascending(last_click.before, "Name")
         /\ last_click.after = tree )
           => tree' = last_click.before]_vars

HasDigit(s) == \E i \in 1..Len(s) : IsDigit(s[i])

\* x comes before y in the order of tuples of integers
TupleBefore(x, y) ==
    \E n \in 0..Len(x) :
        /\ n <= Len(y)
        /\ \A i \in 1..n : x[i] = y[i]
        /\ IF n = Len(x) THEN n < Len(y)
           ELSE n < Len(y) /\ x[n + 1] < y[n + 1]

\* C17: in a version column, two cells whose digit runs differ are ordered
\* by the tuples of their digit runs read as integers ("1.9" before "1.10");
\* a cell without a digit comes before every cell with one ("abc" before
\* "1.0"); nothing comes before the empty cell; and of any two keys exactly
\* one is the smaller, or they are equal.
C17_VersionOrder ==
    fn_out.op = "cell_key" =>
        LET a == fn_in.a
            b == fn_in.b
        IN  /\ fn_out.less \in BOOLEAN /\ fn_out.greater \in BOOLEAN
            /\ (IF fn_out.less THEN 1 ELSE 0) + (IF fn_out.greater THEN 1 ELSE 0)
                   + (IF fn_out.ka = fn_out.kb THEN 1 ELSE 0) = 1
            /\ (HasDigit(a) /\ HasDigit(b) /\ DigitRuns(a) # DigitRuns(b))
                   => (fn_out.less <=> TupleBefore(DigitRuns(a), DigitRuns(b)))
            /\ (~HasDigit(a) /\ HasDigit(b)) => fn_out.less
            /\ a = << >> => ~fn_out.greater
            /\ (a = << "1", ".", "9" >> /\ b = << "1", ".", "1", "0" >>) => fn_out.less
            /\ (a = << "a", "b", "c" >> /\ b = t10) => fn_out.less

\* the keys of "1.9" and "1.10" were compared
C17_Witness ==
    /\ fn_out.op = "cell_key"
    /\ fn_in.a = << "1", ".", "9" >>
    /\ fn_in.b = << "1", ".", "1", "0" >>
    /\ fn_out.ka = << 1, << 1, 9 >>, << "1", ".", "9" >> >>
    /\ fn_out.less

SameKey(col, x, y) ==
    /\ ~KeyLess(col, CellKey(col, Cell(x, col)), CellKey(col, Cell(y, col)))
    /\ ~KeyLess(col, CellKey(col, Cell(y, col)), CellKey(col, Cell(x, col)))

\* to holds the rows of from, those of equal keys in the order they have in
\* from
KeepsTies(from, to, col) ==
    /\ Len(to) = Len(from)
    /\ \E f \in [1..Len(from) -> 1..Len(from)] :
           /\ \A i, j \in 1..Len(from) : i # j => f[i] # f[j]
           /\ \A i \in 1..Len(from) : to[i] = from[f[i]]
           /\ \A i, j \in 1..Len(from) :
                  (i < j /\ SameKey(col, to[i], to[j])) => f[i] < f[j]

\* C18: _sort_tree puts the rows in the order of the direction asked for,
\* rows of equal keys in the order they had, and sorting its result again by
\* the same column and direction changes nothing.
C18_StableIdempotent ==
    fn_out.op = "sort_tree" =>
        /\ IF fn_in.reverse THEN Descending(fn_out.once, fn_in.col)
           ELSE Ascending(fn_out.once, fn_in.col)
        /\ KeepsTies(fn_in.rows, fn_out.once, fn_in.col)
        /\ fn_out.twice = fn_out.once

\* three rows, of which two that differ have one key, were sorted in
\* descending order, which moved rows
C18_Witness ==
    /\ fn_out.op = "sort_tree"
    /\ fn_in.col = "Name"
    /\ fn_in.reverse
    /\ Len(fn_in.rows) = 3
    /\ \E i, j \in 1..3 :
           /\ fn_in.rows[i] # fn_in.rows[j]
           /\ SameKey("Name", fn_in.rows[i], fn_in.rows[j])
    /\ fn_out.once # fn_in.rows
    /\ fn_out.twice = fn_out.once

\* C19: the codes returned for "executable not found" and "timed out"
\* differ from each other and from every code returned for a child process
\* that completed.
C19_SentinelsReserved ==
    /\ RcNotFound # RcTimeout
    /\ (fn_out.op = "run_winget" /\ fn_in.exe # << >> /\ fn_in.proc.kind = "completed")
           => fn_out.result.rc \notin { RcNotFound, RcTimeout }

\* piece occurs in text
HasPiece(text, piece) == \E i \in 1..Len(text) : text[i] = piece

\* C20: run_winget returns a pair of a code and a text for every outcome and
\* raises nothing: without winget on the PATH a code other than 0 and a
\* diagnostic, and no process spawned; on a timeout a code other than 0 and a
\* diagnostic that names the command; when the launch raises, a code other
\* than 0 and the description of the error.
C20_AlwaysAPair ==
    fn_out.op = "run_winget" =>
        LET res == fn_out.result
            cmd == << Txt(fn_in.exe) >> \o fn_in.args
        IN  /\ res.raised = NoFault
            /\ res.rc \in Int
            /\ DOMAIN res.out = 1..Len(res.out)
            /\ fn_in.exe = << >> =>
                   (res.rc # 0 /\ res.out # << >> /\ ~res.spawned)
            /\ (fn_in.exe # << >> /\ fn_in.proc.kind = "TimeoutExpired") =>
                   /\ res.rc # 0
                   /\ \A i \in 1..Len(cmd) :
                          IF "lit" \in DOMAIN cmd[i] THEN HasPiece(res.out, cmd[i].lit)
                          ELSE Contains(res.out, cmd[i].txt)
            /\ (fn_in.exe # << >> /\ fn_in.proc.kind = "OSError") =>
                   /\ res.rc # 0
                   /\ Contains(res.out, fn_in.proc.e)

\* the launch of a command raised, and run_winget returned the code 1 and
\* the description
C20_Witness ==
    /\ fn_out.op = "run_winget"
    /\ fn_in.exe # << >>
    /\ fn_in.proc.kind = "OSError"
    /\ fn_in.args = PinListCmd
    /\ fn_out.result.raised = NoFault
    /\ fn_out.result.rc = 1
    /\ fn_out.result.out = << "Error running: ", "/", "w", " ", "pin", " ", "list", "\n",
                              "Access is denied" >>

\* C21: a refresh whose pin listing exited with a code other than 0 has
\* loaded the empty mapping, whatever the output was, and every row it builds
\* and emits is not pinned.
C21_FailedPinsNothingPinned ==
    \A r \in Runs :
        (W(r).kind = "refresh" /\ W(r).pin_rc # 0) =>
            /\ W(r).snap = << >>
            /\ \A k \in 1..Len(W(r).built) : W(r).built[k].pinned = sNo
            /\ \A n \in 1..Len(emitted[r]) :
                   emitted[r][n].kind \in { "all_rows", "table" } =>
                       \A k \in 1..Len(emitted[r][n].payload.rows) :
                           emitted[r][n].payload.rows[k].pinned = sNo

\* How many arguments of cmd are the flag
CountFlag(cmd, flag) == Cardinality({ i \in 1..Len(cmd) : cmd[i] = [lit |-> flag] })

\* This step starts action run r under one of the titles
Starts(r, titles) ==
    /\ workers[r].kind # "action"
    /\ workers'[r].kind = "action"
    /\ workers'[r].title \in titles

\* C22: every argument list built for Install, Upgrade, Upgrade All and
\* Uninstall holds --silent exactly once and no --interactive when the
\* silent option is set, and --interactive exactly once and no --silent when
\* it is not.
C22_SilentOrInteractive ==
    [][\A r \in Runs :
           Starts(r, { "Install", "Upgrade", "Upgrade All", "Uninstall" }) =>
               \A k \in 1..Len(workers'[r].cmds) :
                   /\ CountFlag(workers'[r].cmds[k], "--silent")
                          = (IF opts.silent THEN 1 ELSE 0)
                   /\ CountFlag(workers'[r].cmds[k], "--interactive")
                          = (IF opts.silent THEN 0 ELSE 1)]_vars

\* an Install run of two commands was started with the silent option set
C22_Witness ==
    \E r \in Runs :
        /\ Alive(r)
        /\ W(r).kind = "action"
        /\ W(r).title = "Install"
        /\ Len(W(r).cmds) = 2
        /\ opts.silent
        /\ \A k \in 1..2 : CountFlag(W(r).cmds[k], "--silent") = 1

\* cmd names the identifier pid, once, right after --id, and no other
NamesOnly(cmd, pid) ==
    /\ CountFlag(cmd, "--id") = 1
    /\ \E i \in 2..Len(cmd) :
           /\ cmd[i] = [txt |-> pid]
           /\ cmd[i - 1] = [lit |-> "--id"]
           /\ \A j \in 1..Len(cmd) : j # i => "txt" \notin DOMAIN cmd[j]

\* ids holds the identifiers of the rows selected, each once, none empty, in
\* the order of their first selected rows
SelectedInOrder(ids, rows, sel) ==
    LET first(x) == CHOOSE i \in sel : rows[i].id = x /\ \A j \in sel : rows[j].id = x => i <= j
    IN  /\ { ids[a] : a \in 1..Len(ids) } = { rows[i].id : i \in sel } \ { << >> }
        /\ \A a, b \in 1..Len(ids) : a < b => first(ids[a]) < first(ids[b])

\* The user starts one of the five actions on the selected rows
PerPackage(sel) ==
    \/ install_selected("toolbar", sel)
    \/ upgrade_selected("toolbar", sel)
    \/ uninstall_selected("toolbar", sel)
    \/ pin_selected("toolbar", sel)
    \/ unpin_selected("toolbar", sel)

\* C23: an action on a selection starts a run with one argument list per
\* distinct identifier selected that is not empty, in the order of the
\* selection, each naming that one identifier after --id; and every call of
\* run_winget by the run passes the next one of these lists.
C23_OneListPerId ==
    [][/\ \A sel \in SUBSET (1..Len(tree)) :
              PerPackage(sel) =>
                  \E r \in Runs :
                      /\ Starts(r, { "Install", "Upgrade", "Uninstall", "Pin", "Unpin" })
                      /\ \E ids \in [1..Len(workers'[r].cmds) -> { tree[i].id : i \in sel }] :
                             /\ SelectedInOrder(ids, tree, sel)
                             /\ \A k \in 1..Len(ids) : NamesOnly(workers'[r].cmds[k], ids[k])
       /\ \A r \in Runs :
              (workers[r].kind = "action" /\ Len(invoked'[r]) > Len(invoked[r])) =>
                  invoked'[r] = Append(invoked[r], workers[r].cmds[Len(invoked[r]) + 1])]_vars

\* an Uninstall run on a selection of four rows, two of them of one
\* identifier and one without, has called run_winget for each of its two
\* argument lists
C23_Witness ==
    \E r \in Runs :
        /\ W(r).kind = "action"
        /\ W(r).title = "Uninstall"
        /\ Len(tree) = 4
        /\ tree[1].id = tree[3].id
        /\ tree[4].id = << >>
        /\ Len(W(r).cmds) = 2
        /\ NamesOnly(W(r).cmds[1], tree[1].id)
        /\ NamesOnly(W(r).cmds[2], tree[2].id)
        /\ invoked[r] = W(r).cmds

\* the flag, when the option is set
FlagIf(option, flag) == IF option THEN << [lit |-> flag] >> ELSE << >>

\* C24: Upgrade All starts a run of a single argument list: upgrade, --all,
\* then --include-unknown iff that option is set, --include-pinned iff that
\* option is set, then the common flags (--silent or --interactive, and the two
\* agreement flags iff accepted); it holds no --exact, no --id and no
\* identifier.
C24_UpgradeAllList ==
    [][\A r \in Runs :
           Starts(r, { "Upgrade All" }) =>
               /\ Len(workers'[r].cmds) = 1
               /\ LET cmd == workers'[r].cmds[1]
                  IN  /\ cmd = << [lit |-> "upgrade"], [lit |-> "--all"] >>
                               \o FlagIf(opts.include_unknown, "--include-unknown")
                               \o FlagIf(opts.include_pinned, "--include-pinned")
                               \o FlagIf(opts.silent, "--silent")
                               \o FlagIf(~opts.silent, "--interactive")
                               \o FlagIf(opts.accept, "--accept-package-agreements")
                               \o FlagIf(opts.accept, "--accept-source-agreements")
                      /\ CountFlag(cmd, "--exact") = 0
                      /\ CountFlag(cmd, "--id") = 0
                      /\ \A i \in 1..Len(cmd) : "txt" \notin DOMAIN cmd[i]]_vars

\* an Upgrade All run with include-unknown set and include-pinned not set has
\* called run_winget with its one list, over a table of several rows
C24_Witness ==
    \E r \in Runs :
        /\ W(r).kind = "action"
        /\ W(r).title = "Upgrade All"
        /\ opts.include_unknown
        /\ ~opts.include_pinned
        /\ Len(tree) > 1
        /\ Len(invoked[r]) = 1
        /\ CountFlag(invoked[r][1], "--include-unknown") = 1
        /\ CountFlag(invoked[r][1], "--include-pinned") = 0

\* The completion event of run r was put and _poll_queue has not handled it
DoneUnhandled(r) ==
    /\ emitted[r] # << >>
    /\ emitted[r][Len(emitted[r])].kind = "done"
    /\ Len(processed[r]) < Len(emitted[r])

\* C25: when the refresh an action run scheduled at its end starts, the
\* completion event of that run has been handled by _poll_queue.
C25_RefreshAfterDoneHandled ==
    [][AfterRefresh =>
           LET r == Head(after_refresh).run
           IN  ~(W(r).kind = "action" /\ W(r).pc = "end" /\ DoneUnhandled(r))]_vars

\* Run r has put its completion event
DonePut(r) == emitted[r] # << >> /\ emitted[r][Len(emitted[r])].kind = "done"

\* busy is cleared and no worker thread is running
Idle == ~busy /\ \A r \in Runs : ~Alive(r)

\* C26: every run started, an action run or a refresh in any mode, with or
\* without a search term, puts its completion event in the end; and unless the
\* user goes on acting for ever, the application ends up idle for good: busy
\* cleared and no worker running.
C26_RunsComplete ==
    /\ \A r \in Runs : (Alive(r) /\ ~DonePut(r)) ~> DonePut(r)
    /\ ([]<><<UserActs>>_vars) \/ <>[]Idle

\* the application is idle again, with nothing left of any run, after a
\* refresh in Search mode with a search term has filled the table
C26_Witness ==
    /\ Idle
    /\ mpc = "mainloop"
    /\ current_mode = "Search"
    /\ search_text # << >>
    /\ tree # << >>
    /\ work_q = << >>
    /\ after_refresh = << >>
    /\ \A r \in Runs : Free(r)

\* The place (from 0) of the i-th label of a header line, from the left
LabelAt(header_line, i) ==
    CHOOSE c \in LabelCells(header_line) :
        Cardinality({ d \in LabelCells(header_line) : d[1] < c[1] }) = i - 1

\* C27: the start of the i-th column is where the i-th label of the header
\* line stands, also when the label stands earlier in the line as well, alone
\* or inside another label; so the starts do not decrease from column to
\* column and the slice of each column ends where the next begins.
C27_OwnOccurrence ==
    fn_out.op = "slices" =>
        LET header_line == fn_in.header_line
            slices == fn_out.slices
        IN  /\ Len(slices) = Cardinality(LabelCells(header_line))
            /\ \A i \in 1..Len(slices) :
                   /\ slices[i].start = LabelAt(header_line, i)[1]
                   /\ slices[i].name = SubSeq(header_line, LabelAt(header_line, i)[1] + 1,
                                              LabelAt(header_line, i)[2])
            /\ \A i \in 1..(Len(slices) - 1) :
                   /\ slices[i].start <= slices[i + 1].start
                   /\ slices[i].end = slices[i + 1].start

\* the slices of a header whose third label stands inside its first and
\* whose second label repeats it: IdName, IdName, Id
C27_Witness ==
    /\ fn_out.op = "slices"
    /\ Len(fn_out.slices) = 3
    /\ fn_out.slices[1].name = lbIdName
    /\ fn_out.slices[2].name = lbIdName
    /\ fn_out.slices[3].name = sId
    /\ fn_out.slices[2].start > fn_out.slices[1].start
    /\ fn_out.slices[3].start > fn_out.slices[2].start

\* C28: whenever the table displays rows, they are in the order of the
\* current sort column and direction: after the refill by a refresh, after
\* the refill by a change of the local filter, after a click on a header.
C28_DisplayedInSortOrder ==
    tree # << >> =>
        IF sort_reverse THEN Descending(tree, sort_col) ELSE Ascending(tree, sort_col)

\* the local filter has left two of the rows loaded, displayed in ascending
\* order of the version, which is not the order they were loaded in
C28_Witness ==
    /\ search_text # << >>
    /\ sort_col = "Version"
    /\ ~sort_reverse
    /\ Len(tree) = 2
    /\ Len(all_rows) > 2
    /\ tree # FilterRows(all_rows, search_text)
    /\ ~Descending(tree, "Version")
    /\ \A r \in Runs : Free(r)

====
